---------------------------- MODULE Spec2Model ----------------------------
(***************************************************************************)
(* Chart parsers of the morphological-patterns lessons: the context-free   *)
(* grammar classes, the CKY parser (the plain one of cky-parsing.qmd and   *)
(* the probabilistic one of the PCFG lesson) and the Earley parser of      *)
(* operations.qmd.  A behaviour fixes a grammar and a token sequence and   *)
(* then makes the parser calls one after the other; every chart fill is    *)
(* stepped through.                                                        *)
(*                                                                         *)
(* Spec            the parser calls on one grammar and one token sequence  *)
(* SpecConcurrent  two Earley calls whose steps interleave                 *)
(* SpecGrammars    grammar objects constructed, queried and combined       *)
(* SpecChart       a CKY chart read and written through its indices        *)
(* SpecEdit        the Levenshtein distances of levenshtein-distance.qmd   *)
(*                                                                         *)
(* CKYParser._fill_chart of cky-parsing.qmd is left to the reader there    *)
(* (it raises NotImplementedError); the fill of the plain CKY parser is    *)
(* the CKY pseudocode of the same file, adding the entries in the shape    *)
(* CKYChart._construct_parses reads.  The fill of the Earley parser and    *)
(* its _construct_parses are the pseudocode of operations.qmd, around the  *)
(* _predict, _scan and _complete methods given there.                      *)
(*                                                                         *)
(* Log-probabilities: a log-probability x is represented by the integer    *)
(* exp(x) * LogScale.  Rule probabilities of the grammars below are powers *)
(* of 1/2, so every value that occurs is exact.  In this representation    *)
(* the sum of two log-probabilities is LogAdd, logsumexp is LogSumExp and  *)
(* float('-inf') is NegInf.                                                *)
(***************************************************************************)
EXTENDS Integers, Sequences, FiniteSets, TLC

(***************************************************************************)
(* Bounds                                                                  *)
(***************************************************************************)
MaxLen == 3

(***************************************************************************)
(* Log-probabilities                                                       *)
(***************************************************************************)
LogScale == 2^14

NegInf == 0 * LogScale

LogZero == LogScale

Half(k) == LogScale \div (2^k)

LogAdd(x, y) == (x * y) \div LogScale

\* the larger of the two in place of their logsumexp
LogSumExpAsMax(x, y) == IF x > y THEN x ELSE y

LogSumExp(x, y) == x + y

(***************************************************************************)
(* Rules and grammars                                                      *)
(***************************************************************************)
Rule(left_side, right_side) ==
    [left_side |-> left_side, right_side |-> right_side]

ProbabilisticRule(left_side, right_side, logprob) ==
    [left_side |-> left_side, right_side |-> right_side, logprob |-> logprob]

\* Rule.__eq__ / __hash__: a probabilistic rule is the rule of its two sides
RuleOf(r) == Rule(r.left_side, r.right_side)

ContextFreeGrammar(alphabet, variables, rules, start_variable) ==
    [alphabet |-> alphabet, variables |-> variables,
     rules |-> rules, start_variable |-> start_variable]

\* the documented grammar of "unhappiness"
UnhappyGrammar ==
    ContextFreeGrammar(
        {"un", "happy", "ness"},
        {"Word", "Adj", "N", "Prefix", "Suffix"},
        {ProbabilisticRule("Adj", <<"happy">>, Half(1)),
         ProbabilisticRule("Prefix", <<"un">>, Half(0)),
         ProbabilisticRule("Suffix", <<"ness">>, Half(0)),
         ProbabilisticRule("Adj", <<"Prefix", "Adj">>, Half(1)),
         ProbabilisticRule("N", <<"Adj", "Suffix">>, Half(0)),
         ProbabilisticRule("Word", <<"N">>, Half(0))},
        "Word")

\* the documented ambiguous grammar of "unlockable"
AmbiguousGrammar ==
    ContextFreeGrammar(
        {"un", "lock", "able"},
        {"Word", "V", "Adj", "Prefix", "Suffix"},
        {ProbabilisticRule("V", <<"lock">>, Half(1)),
         ProbabilisticRule("Prefix", <<"un">>, Half(0)),
         ProbabilisticRule("Suffix", <<"able">>, Half(0)),
         ProbabilisticRule("V", <<"Prefix", "V">>, Half(1)),
         ProbabilisticRule("Adj", <<"V", "Suffix">>, Half(1)),
         ProbabilisticRule("Adj", <<"Prefix", "Adj">>, Half(1)),
         ProbabilisticRule("Word", <<"Adj">>, Half(0))},
        "Word")

\* a grammar in Chomsky Normal Form in which A has two analyses of "a a"
CnfAmbiguousGrammar ==
    ContextFreeGrammar(
        {"a", "b"},
        {"S", "A", "B", "C"},
        {ProbabilisticRule("S", <<"A", "B">>, Half(0)),
         ProbabilisticRule("A", <<"B", "B">>, Half(1)),
         ProbabilisticRule("A", <<"C", "C">>, Half(1)),
         ProbabilisticRule("B", <<"a">>, Half(1)),
         ProbabilisticRule("B", <<"b">>, Half(1)),
         ProbabilisticRule("C", <<"a">>, Half(0))},
        "S")

\* a grammar in Chomsky Normal Form, left- and right-recursive
CnfRecursiveGrammar ==
    ContextFreeGrammar(
        {"a"},
        {"S"},
        {ProbabilisticRule("S", <<"S", "S">>, Half(1)),
         ProbabilisticRule("S", <<"a">>, Half(1))},
        "S")

\* a^n b^n, n >= 1, in Chomsky Normal Form
CnfAnBnGrammar ==
    ContextFreeGrammar(
        {"a", "b"},
        {"S", "T", "A", "B"},
        {ProbabilisticRule("S", <<"A", "T">>, Half(1)),
         ProbabilisticRule("S", <<"A", "B">>, Half(1)),
         ProbabilisticRule("T", <<"S", "B">>, Half(0)),
         ProbabilisticRule("A", <<"a">>, Half(0)),
         ProbabilisticRule("B", <<"b">>, Half(0))},
        "S")

\* a^n b^n, n >= 1, with a rule of three symbols
AnBnGrammar ==
    ContextFreeGrammar(
        {"a", "b"},
        {"S"},
        {ProbabilisticRule("S", <<"a", "S", "b">>, Half(1)),
         ProbabilisticRule("S", <<"a", "b">>, Half(1))},
        "S")

\* left-recursive, with a unary rule and a rule of three symbols
LeftRecursiveGrammar ==
    ContextFreeGrammar(
        {"p", "x"},
        {"E", "T"},
        {ProbabilisticRule("E", <<"E", "p", "T">>, Half(1)),
         ProbabilisticRule("E", <<"T">>, Half(1)),
         ProbabilisticRule("T", <<"x">>, Half(0))},
        "E")

\* the start variable rewrites to the empty string or to a token
OptionalGrammar ==
    ContextFreeGrammar(
        {"a"},
        {"S"},
        {ProbabilisticRule("S", <<>>, Half(1)),
         ProbabilisticRule("S", <<"a">>, Half(1))},
        "S")

\* a grammar of plain rules, the operand of kleene_star below
BaseGrammar ==
    ContextFreeGrammar({"a"}, {"S"}, {Rule("S", <<"a">>)}, "S")

RECURSIVE FreshVariable(_, _)
FreshVariable(new_start, variables) ==
    IF new_start \in variables
    THEN FreshVariable(new_start \o "_", variables)
    ELSE new_start

kleene_star(self) ==
    LET new_start == FreshVariable("S_star", self.variables)
    IN  ContextFreeGrammar(
            self.alphabet,
            self.variables \cup {new_start},
            {RuleOf(r) : r \in self.rules}
                \cup {Rule(new_start, <<new_start, self.start_variable>>),
                      Rule(new_start, <<>>)},
            new_start)

StarGrammar == kleene_star(BaseGrammar)

ProbabilisticGrammars ==
    {UnhappyGrammar, AmbiguousGrammar, CnfAmbiguousGrammar,
     CnfRecursiveGrammar, CnfAnBnGrammar, AnBnGrammar,
     LeftRecursiveGrammar, OptionalGrammar}

\* a grammar of plain rules in which the start variable rewrites to itself
\* twice or to the empty string
NullableGrammar ==
    ContextFreeGrammar(
        {"a"},
        {"S"},
        {Rule("S", <<"S", "S">>), Rule("S", <<>>)},
        "S")

Grammars == ProbabilisticGrammars \cup {StarGrammar, NullableGrammar}

\* ContextFreeGrammar.rules(): the rules as Rule objects
Rules(G) == {RuleOf(r) : r \in G.rules}

\* ContextFreeGrammar.rules(left_side)
RulesFor(G, left_side) == {r \in Rules(G) : r.left_side = left_side}

\* ContextFreeGrammar.reduce(*right_side)
Reduce(G, right_side) ==
    {r.left_side : r \in {x \in Rules(G) : x.right_side = right_side}}

\* ProbabilisticContextFreeGrammar.reduce(*right_side)
ReduceProb(G, right_side) ==
    {<<r.left_side, r.logprob>> : r \in {x \in G.rules : x.right_side = right_side}}

\* the tokens a caller may pass: those of the alphabet and one outside it
Tokens(G) == G.alphabet \cup {"z"}

\* token sequences of length at most n over a set of tokens
RECURSIVE Strings(_, _)
Strings(alphabet, n) ==
    IF n = 0 THEN {<<>>}
    ELSE LET shorter == Strings(alphabet, n - 1)
         IN  shorter \cup {Append(w, t) : w \in shorter, t \in alphabet}

\* a a a b b, three a's and two b's
ThreeTwo == <<"a", "a", "a", "b", "b">>

\* the strings a parser is called on: every short token sequence and, for
\* the grammars of a^n b^n, ThreeTwo
Inputs(G) ==
    Strings(Tokens(G), MaxLen)
        \cup (IF G \in {CnfAnBnGrammar, AnBnGrammar} THEN {ThreeTwo} ELSE {})

(***************************************************************************)
(* Trees                                                                   *)
(***************************************************************************)
Tree(data, children) == [data |-> data, children |-> children]

(***************************************************************************)
(* State                                                                   *)
(***************************************************************************)
VARIABLES
    grammar,      \* the grammar the parsers are built on
    string,       \* the token sequence given to every call
    todo,         \* the calls still to make, the first one running
    pc,           \* "idle", "fill" (inside _fill_chart) or "filled"
    chart,        \* the CKYChart of the running CKY call
    loop,         \* the loop variables of CKYParser._fill_chart
    echart,       \* the EarleyChart of the running Earley call
    position,     \* the chart position the Earley fill is closing
    self_string,  \* EarleyParser._string
    result,       \* what each call returned or raised
    threads,      \* the Earley calls that run at the same time
    parsers,      \* _string of each EarleyParser object those calls use
    objects,      \* the grammar objects constructed so far
    sets,         \* the set objects that hold their rules
    rules_cache,  \* the lru_cache of ContextFreeGrammar.rules
    reduce_cache, \* the lru_cache of ContextFreeGrammar.reduce
    cky_chart,    \* a CKYChart used through chart[i, j]
    outcome,      \* what the last constructor, method or index did
    editdist,     \* the StringEdit object: its three costs
    edit_strings, \* the two strings the distances are taken between
    wagner_fisher, \* the local variables of StringEdit3._wagner_fisher
    distances     \* the values the calls on the StringEdit object returned

vars == <<grammar, string, todo, pc, chart, loop, echart, position,
          self_string, result, threads, parsers, objects, sets,
          rules_cache, reduce_cache, cky_chart, outcome, editdist,
          edit_strings, wagner_fisher, distances>>

\* the state of the calls made one after the other
sequential == <<string, todo, pc, chart, loop, echart, position, self_string,
                result>>

\* the state of the calls made at the same time
concurrent == <<threads, parsers>>

\* the state of the grammar objects and of the chart used on their own
library == <<objects, sets, rules_cache, reduce_cache, cky_chart, outcome>>

\* the state of the calls on a StringEdit object
editing == <<editdist, edit_strings, wagner_fisher, distances>>

Calls ==
    {"cky_recognize", "cky_parse", "pcfg_recognize", "pcfg_parse",
     "earley_recognize", "earley_parse"}

CallOrder(G) ==
    IF G \in ProbabilisticGrammars
    THEN <<"cky_recognize", "cky_parse", "pcfg_recognize", "pcfg_parse",
           "earley_recognize", "earley_parse">>
    ELSE <<"cky_recognize", "cky_parse", "earley_recognize", "earley_parse">>

\* What a call gave: recognized is the value of a plain _recognize, logprob
\* the value of the PCFG _recognize, trees the trees of a _parse, parses the
\* (tree, log-probability) pairs of the PCFG _parse and count the number of
\* elements of the collection a _parse returned.
NoResult ==
    [status |-> "none", recognized |-> FALSE, logprob |-> NegInf,
     trees |-> {}, parses |-> {}, count |-> 0, error |-> ""]

Returned(recognized, logprob, trees, parses, count) ==
    [status |-> "returned", recognized |-> recognized, logprob |-> logprob,
     trees |-> trees, parses |-> parses, count |-> count, error |-> ""]

Raised(error) ==
    [status |-> "raised", recognized |-> FALSE, logprob |-> NegInf,
     trees |-> {}, parses |-> {}, count |-> 0, error |-> error]

current == IF todo = <<>> THEN "" ELSE Head(todo)

(***************************************************************************)
(* CKY: the chart                                                          *)
(***************************************************************************)
\* CKYChart.__init__: input_size + 1 rows of input_size + 1 empty cells
CKYChartInit(n) == [index \in (0..n) \X (0..n) |-> {}]

\* CKYChart._validate_index: the error it raises, or "ok".  A list index
\* from -(input_size + 1) to input_size raises no IndexError.
ValidateIndex(n, i, j) ==
    IF ~(i < j) THEN "ValueError"
    ELSE IF ~(-(n + 1) <= i /\ i <= n) THEN "ValueError"
    ELSE IF ~(-(n + 1) <= j /\ j <= n) THEN "ValueError"
    ELSE "ok"

(***************************************************************************)
(* CKY: the iterations of the loops of _fill_chart, in their order         *)
(***************************************************************************)
Iteration(kind, i, j, k) == [kind |-> kind, i |-> i, j |-> j, k |-> k]

LoopDone == Iteration("done", 0, 0, 0)

\* for length in range(2, input_size+1): for i ...: for k in range(i+1, j)
FirstSplit(n) == IF n >= 2 THEN Iteration("split", 0, 2, 1) ELSE LoopDone

\* for j in range(1, input_size+1): i = j - 1
FirstIteration(n) == IF n >= 1 THEN Iteration("base", 0, 1, 0) ELSE FirstSplit(n)

\* NextIteration with the loop over the split points k cut to its first
\* iteration
NextIterationFirstSplitOnly(it, n) ==
    IF it.kind = "base"
    THEN IF it.j < n THEN Iteration("base", it.j, it.j + 1, 0) ELSE FirstSplit(n)
    ELSE LET length == it.j - it.i
         IN  IF it.i < n - length
             THEN Iteration("split", it.i + 1, it.i + 1 + length, it.i + 2)
             ELSE IF length < n
             THEN Iteration("split", 0, length + 1, 1)
             ELSE LoopDone

NextIteration(it, n) ==
    IF it.kind = "base"
    THEN IF it.j < n THEN Iteration("base", it.j, it.j + 1, 0) ELSE FirstSplit(n)
    ELSE LET length == it.j - it.i
         IN  IF it.k < it.j - 1
             THEN Iteration("split", it.i, it.j, it.k + 1)
             ELSE IF it.i < n - length
             THEN Iteration("split", it.i + 1, it.i + 1 + length, it.i + 2)
             ELSE IF length < n
             THEN Iteration("split", 0, length + 1, 1)
             ELSE LoopDone

(***************************************************************************)
(* CKY of the PCFG lesson: entries, fill, parse and recognize              *)
(***************************************************************************)
CKYChartEntry(symbol, logprob, backpointers) ==
    [symbol |-> symbol, logprob |-> logprob, backpointers |-> backpointers]

\* CKYChartEntry.__hash__ / __eq__: the symbol and the backpointers, which
\* are entries compared the same way; the log-probability is not compared
RECURSIVE EntryKey(_)
EntryKey(entry) ==
    [symbol |-> entry.symbol,
     backpointers |-> [b \in DOMAIN entry.backpointers |->
                          EntryKey(entry.backpointers[b])]]

\* set.add: an entry equal to one of the set leaves the set as it is
CellAdd(cell, entry) ==
    IF \E e \in cell : EntryKey(e) = EntryKey(entry) THEN cell
    ELSE cell \cup {entry}

RECURSIVE CellAddAll(_, _)
CellAddAll(cell, entries) ==
    IF entries = {} THEN cell
    ELSE LET entry == CHOOSE e \in entries : TRUE
         IN  CellAddAll(CellAdd(cell, entry), entries \ {entry})

\* the base case of _fill_chart for one j
PcfgBaseEntries(G, word) ==
    {CKYChartEntry(sl[1], sl[2], <<CKYChartEntry(word, LogZero, <<>>)>>) :
        sl \in ReduceProb(G, <<word>>)}

\* the innermost loops with entry_logprob leaving out the right entry
DerivationsWithoutRight(G, left_cell, right_cell) ==
    UNION {UNION {{[parent |-> pl[1],
                    entry_logprob |-> LogAdd(pl[2], left_entry.logprob),
                    left_entry |-> left_entry,
                    right_entry |-> right_entry] :
                      pl \in ReduceProb(G, <<left_entry.symbol,
                                             right_entry.symbol>>)} :
                  right_entry \in right_cell} :
              left_entry \in left_cell}

\* the innermost loops of _fill_chart for one split point k: every
\* left_entry, right_entry and (parent, rule_logprob) with entry_logprob
Derivations(G, left_cell, right_cell) ==
    UNION {UNION {{[parent |-> pl[1],
                    entry_logprob |->
                        LogAdd(LogAdd(pl[2], left_entry.logprob),
                               right_entry.logprob),
                    left_entry |-> left_entry,
                    right_entry |-> right_entry] :
                      pl \in ReduceProb(G, <<left_entry.symbol,
                                             right_entry.symbol>>)} :
                  right_entry \in right_cell} :
              left_entry \in left_cell}

\* keep_backtraces: one new entry for each derivation
BacktraceEntries(derivations) ==
    {CKYChartEntry(d.parent, d.entry_logprob, <<d.left_entry, d.right_entry>>) :
        d \in derivations}

RECURSIVE SumLogprob(_)
SumLogprob(derivations) ==
    IF derivations = {} THEN NegInf
    ELSE LET d == CHOOSE x \in derivations : TRUE
         IN  LogSumExp(d.entry_logprob, SumLogprob(derivations \ {d}))

\* not keep_backtraces: the entry of a parent is removed and added again
\* with logsumexp of its log-probability and the derivation's, one
\* derivation after the other
Aggregate(cell, derivations) ==
    LET parents == {d.parent : d \in derivations}
        old(parent) ==
            IF \E e \in cell : e.symbol = parent
            THEN (CHOOSE e \in cell : e.symbol = parent).logprob
            ELSE NegInf
    IN  {e \in cell : e.symbol \notin parents}
        \cup {CKYChartEntry(
                  parent,
                  LogSumExp(old(parent),
                            SumLogprob({d \in derivations : d.parent = parent})),
                  <<>>) : parent \in parents}

\* CKYParser._build_tree
RECURSIVE BuildTree(_)
BuildTree(entry) ==
    Tree(entry.symbol,
         [b \in DOMAIN entry.backpointers |-> BuildTree(entry.backpointers[b])])

RECURSIVE LogSumExpSet(_)
LogSumExpSet(entries) ==
    IF entries = {} THEN NegInf
    ELSE LET e == CHOOSE x \in entries : TRUE
         IN  LogSumExp(e.logprob, LogSumExpSet(entries \ {e}))

(***************************************************************************)
(* CKY of cky-parsing.qmd: entries, fill (the pseudocode) and parses       *)
(***************************************************************************)
\* CKYChartEntry(symbol, *backpointers), a backpointer being (symbol, span)
PlainEntry(symbol, backpointers) ==
    [symbol |-> symbol, backpointers |-> backpointers]

\* for each rule A -> input[j-1]: add A to chart[j-1, j]
PlainBaseEntries(G, word) ==
    {PlainEntry(A, <<>>) : A \in Reduce(G, <<word>>)}

\* for each B in chart[i, k], C in chart[k, j], rule A -> B C:
\* add A to chart[i, j], with the two backpointers _construct_parses reads
PlainSplitEntries(G, ch, i, j, k) ==
    UNION {UNION {{PlainEntry(A, <<<<B.symbol, <<i, k>>>>, <<C.symbol, <<k, j>>>>>>) :
                      A \in Reduce(G, <<B.symbol, C.symbol>>)} :
                  C \in ch[<<k, j>>]} :
              B \in ch[<<i, k>>]}

PlainBackPointers(ch) ==
    UNION {{e.backpointers[b] : b \in DOMAIN e.backpointers} :
              e \in UNION {ch[index] : index \in DOMAIN ch}}

\* next(e for e in self[span] if e.symbol == symbol): the first match in
\* the iteration order of the cell, any of the matching entries
PlainMatches(ch, symbol, span) == {e \in ch[span] : e.symbol = symbol}

RECURSIVE PlainFirstMatches(_, _)
PlainFirstMatches(ch, keys) ==
    IF keys = {} THEN {<<>>}
    ELSE LET k == CHOOSE x \in keys : TRUE
         IN  {(k :> c) @@ f :
                 c \in PlainMatches(ch, k[1], k[2]),
                 f \in PlainFirstMatches(ch, keys \ {k})}

\* CKYChart._construct_parses(entry)
RECURSIVE PlainConstructParses(_, _)
PlainConstructParses(first, entry) ==
    IF entry.backpointers = <<>> THEN {Tree(entry.symbol, <<>>)}
    ELSE UNION {
        {Tree(entry.symbol, <<left_parse, right_parse>>) :
            left_parse \in
                PlainConstructParses(first, first[entry.backpointers[2 * p - 1]]),
            right_parse \in
                PlainConstructParses(first, first[entry.backpointers[2 * p]])} :
        p \in 1..(Len(entry.backpointers) \div 2)}

\* CKYChart._construct_parses(): every entry of chart[0, input_size]
PlainParses(ch, n, first) ==
    UNION {PlainConstructParses(first, entry) : entry \in ch[<<0, n>>]}

(***************************************************************************)
(* CKY: the calls                                                          *)
(***************************************************************************)
IsPlainCKY(call) == call \in {"cky_recognize", "cky_parse"}

IsPcfgCKY(call) == call \in {"pcfg_recognize", "pcfg_parse"}

IsCKY(call) == IsPlainCKY(call) \/ IsPcfgCKY(call)

\* _fill_chart(string, keep_backtraces=False) is what _recognize calls
keep_backtraces == current = "pcfg_parse"

CKYCall ==
    /\ pc = "idle"
    /\ IsCKY(current)
    /\ chart' = CKYChartInit(Len(string))
    /\ loop' = FirstIteration(Len(string))
    /\ pc' = "fill"
    /\ UNCHANGED <<grammar, string, todo, echart, position, self_string, result>>
    /\ UNCHANGED <<concurrent, library, editing>>

PlainBaseStep ==
    /\ pc = "fill"
    /\ IsPlainCKY(current)
    /\ loop.kind = "base"
    /\ chart' = [chart EXCEPT ![<<loop.i, loop.j>>] =
            @ \cup PlainBaseEntries(grammar, string[loop.j])]
    /\ loop' = NextIteration(loop, Len(string))
    /\ UNCHANGED <<grammar, string, todo, pc, echart, position, self_string,
                   result>>
    /\ UNCHANGED <<concurrent, library, editing>>

PlainSplitStep ==
    /\ pc = "fill"
    /\ IsPlainCKY(current)
    /\ loop.kind = "split"
    /\ chart' = [chart EXCEPT ![<<loop.i, loop.j>>] =
            @ \cup PlainSplitEntries(grammar, chart, loop.i, loop.j, loop.k)]
    /\ loop' = NextIteration(loop, Len(string))
    /\ UNCHANGED <<grammar, string, todo, pc, echart, position, self_string,
                   result>>
    /\ UNCHANGED <<concurrent, library, editing>>

PcfgBaseStep ==
    /\ pc = "fill"
    /\ IsPcfgCKY(current)
    /\ loop.kind = "base"
    /\ chart' = [chart EXCEPT ![<<loop.i, loop.j>>] =
            CellAddAll(@, PcfgBaseEntries(grammar, string[loop.j]))]
    /\ loop' = NextIteration(loop, Len(string))
    /\ UNCHANGED <<grammar, string, todo, pc, echart, position, self_string,
                   result>>
    /\ UNCHANGED <<concurrent, library, editing>>

PcfgSplitStep ==
    /\ pc = "fill"
    /\ IsPcfgCKY(current)
    /\ loop.kind = "split"
    /\ LET derivations ==
               Derivations(grammar, chart[<<loop.i, loop.k>>],
                           chart[<<loop.k, loop.j>>])
       IN  chart' = [chart EXCEPT ![<<loop.i, loop.j>>] =
               IF keep_backtraces
               THEN CellAddAll(@, BacktraceEntries(derivations))
               ELSE Aggregate(@, derivations)]
    /\ loop' = NextIteration(loop, Len(string))
    /\ UNCHANGED <<grammar, string, todo, pc, echart, position, self_string,
                   result>>
    /\ UNCHANGED <<concurrent, library, editing>>

\* return chart
CKYFilled ==
    /\ pc = "fill"
    /\ IsCKY(current)
    /\ loop.kind = "done"
    /\ pc' = "filled"
    /\ UNCHANGED <<grammar, string, todo, chart, loop, echart, position,
                   self_string, result>>
    /\ UNCHANGED <<concurrent, library, editing>>

\* CKYParser._recognize and CKYParser._parse of cky-parsing.qmd
PlainReturn ==
    /\ pc = "filled"
    /\ IsPlainCKY(current)
    /\ LET n == Len(string)
           valid == ValidateIndex(n, 0, n)
       IN  IF valid # "ok"
           THEN result' = [result EXCEPT ![current] = Raised(valid)]
           ELSE IF current = "cky_recognize"
           THEN result' = [result EXCEPT ![current] =
                    Returned(\E entry \in chart[<<0, n>>] :
                                 entry.symbol = grammar.start_variable,
                             NegInf, {}, {}, 0)]
           ELSE \E first \in PlainFirstMatches(chart, PlainBackPointers(chart)) :
                    LET parses == PlainParses(chart, n, first)
                    IN  result' = [result EXCEPT ![current] =
                            Returned(FALSE, NegInf, parses, {},
                                     Cardinality(parses))]
    /\ todo' = Tail(todo)
    /\ pc' = "idle"
    /\ UNCHANGED <<grammar, string, chart, loop, echart, position, self_string>>
    /\ UNCHANGED <<concurrent, library, editing>>

\* CKYParser._recognize and CKYParser._parse of the PCFG lesson
PcfgReturn ==
    /\ pc = "filled"
    /\ IsPcfgCKY(current)
    /\ LET n == Len(string)
           valid == ValidateIndex(n, 0, n)
           roots == IF valid = "ok"
                    THEN {entry \in chart[<<0, n>>] :
                             entry.symbol = grammar.start_variable}
                    ELSE {}
       IN  IF valid # "ok"
           THEN result' = [result EXCEPT ![current] = Raised(valid)]
           ELSE IF current = "pcfg_recognize"
           THEN result' = [result EXCEPT ![current] =
                    Returned(FALSE, LogSumExpSet(roots), {}, {}, 0)]
           ELSE result' = [result EXCEPT ![current] =
                    Returned(FALSE, NegInf,
                             {BuildTree(entry) : entry \in roots},
                             {<<BuildTree(entry), entry.logprob>> : entry \in roots},
                             Cardinality(roots))]
    /\ todo' = Tail(todo)
    /\ pc' = "idle"
    /\ UNCHANGED <<grammar, string, chart, loop, echart, position, self_string>>
    /\ UNCHANGED <<concurrent, library, editing>>

(***************************************************************************)
(* Earley: dotted rules and chart entries                                  *)
(***************************************************************************)
DottedRule(rule, span, dot) == [rule |-> rule, span |-> span, dot |-> dot]

\* DottedRule.is_complete
is_complete(dotted_rule) == dotted_rule.dot = Len(dotted_rule.rule.right_side)

\* DottedRule.next_symbol, read only on a rule that is not complete
next_symbol(dotted_rule) == dotted_rule.rule.right_side[dotted_rule.dot + 1]

\* DottedRule.complete
DottedRuleComplete(self, new_left_edge) ==
    DottedRule(self.rule, <<self.span[1], new_left_edge>>, self.dot + 1)

EarleyChartEntry(dotted_rule, backpointers) ==
    [dotted_rule |-> dotted_rule, backpointers |-> backpointers]

\* EarleyChartEntry.complete: the entry argument is not read; the
\* backpointer is the next symbol with the right edge of the waiting entry
EntryComplete(self, entry, new_left_edge) ==
    EarleyChartEntry(
        DottedRuleComplete(self.dotted_rule, new_left_edge),
        Append(self.backpointers,
               <<next_symbol(self.dotted_rule), self.dotted_rule.span[2]>>))

\* EarleyChartEntry.is_completion_of
is_completion_of(self, other) ==
    self.dotted_rule.rule.left_side = next_symbol(other.dotted_rule)

\* EarleyChart.__init__, with chart[0] as _fill_chart initialises it
EarleyChartInit(G, n) ==
    [p \in 0..n |->
        IF p = 0
        THEN {EarleyChartEntry(DottedRule(rule, <<0, 0>>, 0), <<>>) :
                  rule \in RulesFor(G, G.start_variable)}
        ELSE {}]

(***************************************************************************)
(* Earley: what predict, scan and complete add for one entry               *)
(***************************************************************************)
\* _predict with the new spans opening where the predicting entry opens
PredictedFromEntryStart(G, entry, pos) ==
    {EarleyChartEntry(DottedRule(rule, <<entry.dotted_rule.span[1], pos>>, 0), <<>>) :
        rule \in RulesFor(G, next_symbol(entry.dotted_rule))}

\* EarleyParser._predict
Predicted(G, entry, pos) ==
    {EarleyChartEntry(DottedRule(rule, <<pos, pos>>, 0), <<>>) :
        rule \in RulesFor(G, next_symbol(entry.dotted_rule))}

\* EarleyParser._scan: the entries added to chart[pos + 1]
Scanned(word, entry, pos) ==
    LET expected == next_symbol(entry.dotted_rule)
        terminal_entry ==
            EarleyChartEntry(
                DottedRule(Rule(expected, <<word>>), <<pos, pos + 1>>, 1), <<>>)
    IN  IF word = expected
        THEN {terminal_entry, EntryComplete(entry, terminal_entry, pos + 1)}
        ELSE {}

\* EarleyParser._complete: the entries the loop over chart[start] builds
Completed(ch, entry) ==
    LET start == entry.dotted_rule.span[1]
        end == entry.dotted_rule.span[2]
    IN  {EntryComplete(prev_entry, entry, end) :
            prev_entry \in
                {e \in ch[start] :
                    /\ ~is_complete(e.dotted_rule)
                    /\ is_completion_of(entry, e)}}

\* the branch of the _fill_chart loop an entry takes
Operation(G, entry, pos, n) ==
    IF is_complete(entry.dotted_rule) THEN "complete"
    ELSE IF next_symbol(entry.dotted_rule) \in G.variables THEN "predict"
    ELSE IF next_symbol(entry.dotted_rule) \in G.alphabet /\ pos < n THEN "scan"
    ELSE "skip"

\* repeat until chart[i] doesn't change: a pass over chart[pos] adds nothing
Closed(G, ch, w, pos) ==
    \A entry \in ch[pos] :
        LET op == Operation(G, entry, pos, Len(w))
        IN  /\ op = "predict" => Predicted(G, entry, pos) \subseteq ch[pos]
            /\ op = "scan" => Scanned(w[pos + 1], entry, pos) \subseteq ch[pos + 1]
            /\ op = "complete" => Completed(ch, entry) \subseteq ch[pos]

(***************************************************************************)
(* Earley: the calls                                                       *)
(***************************************************************************)
IsEarley(call) == call \in {"earley_recognize", "earley_parse"}

\* _fill_chart, up to the loop over the positions
EarleyCall ==
    /\ pc = "idle"
    /\ IsEarley(current)
    /\ self_string' = string
    /\ echart' = EarleyChartInit(grammar, Len(string))
    /\ position' = 0
    /\ pc' = "fill"
    /\ UNCHANGED <<grammar, string, todo, chart, loop, result>>
    /\ UNCHANGED <<concurrent, library, editing>>

PredictStep ==
    /\ pc = "fill"
    /\ IsEarley(current)
    /\ \E entry \in echart[position] :
        /\ Operation(grammar, entry, position, Len(self_string)) = "predict"
        /\ ~(Predicted(grammar, entry, position) \subseteq echart[position])
        /\ echart' = [echart EXCEPT
                ![position] = @ \cup Predicted(grammar, entry, position)]
    /\ UNCHANGED <<grammar, string, todo, pc, chart, loop, position,
                   self_string, result>>
    /\ UNCHANGED <<concurrent, library, editing>>

ScanStep ==
    /\ pc = "fill"
    /\ IsEarley(current)
    /\ \E entry \in echart[position] :
        /\ Operation(grammar, entry, position, Len(self_string)) = "scan"
        /\ LET added == Scanned(self_string[position + 1], entry, position)
           IN  /\ ~(added \subseteq echart[position + 1])
               /\ echart' = [echart EXCEPT ![position + 1] = @ \cup added]
    /\ UNCHANGED <<grammar, string, todo, pc, chart, loop, position,
                   self_string, result>>
    /\ UNCHANGED <<concurrent, library, editing>>

\* _complete reading chart[start] and writing chart[position], two sets
CompleteStep ==
    /\ pc = "fill"
    /\ IsEarley(current)
    /\ \E entry \in echart[position] :
        /\ Operation(grammar, entry, position, Len(self_string)) = "complete"
        /\ entry.dotted_rule.span[1] # position
        /\ ~(Completed(echart, entry) \subseteq echart[position])
        /\ echart' = [echart EXCEPT ![position] = @ \cup Completed(echart, entry)]
    /\ UNCHANGED <<grammar, string, todo, pc, chart, loop, position,
                   self_string, result>>
    /\ UNCHANGED <<concurrent, library, editing>>

\* _complete on an entry of span (position, position): the loop iterates
\* over the set it adds to, so the first entry that is new to the set makes
\* the iteration raise RuntimeError (set changed size during iteration)
CompleteInPlace ==
    /\ pc = "fill"
    /\ IsEarley(current)
    /\ \E entry \in echart[position] :
        /\ Operation(grammar, entry, position, Len(self_string)) = "complete"
        /\ entry.dotted_rule.span[1] = position
        /\ \E new_entry \in Completed(echart, entry) \ echart[position] :
            echart' = [echart EXCEPT ![position] = @ \cup {new_entry}]
    /\ result' = [result EXCEPT ![current] = Raised("RuntimeError")]
    /\ todo' = Tail(todo)
    /\ pc' = "idle"
    /\ UNCHANGED <<grammar, string, chart, loop, position, self_string>>
    /\ UNCHANGED <<concurrent, library, editing>>

\* the next position, once chart[position] has stopped changing
EarleyAdvance ==
    /\ pc = "fill"
    /\ IsEarley(current)
    /\ Closed(grammar, echart, self_string, position)
    /\ IF position < Len(self_string)
       THEN position' = position + 1 /\ pc' = pc
       ELSE position' = position /\ pc' = "filled"
    /\ UNCHANGED <<grammar, string, todo, chart, loop, echart, self_string,
                   result>>
    /\ UNCHANGED <<concurrent, library, editing>>

(***************************************************************************)
(* Earley: recognition and the parses of a filled chart                    *)
(***************************************************************************)
\* IsParseRoot without the test that the entry covers the string
IsParseRootAnySpan(entry, start_variable, n) ==
    /\ entry.dotted_rule.rule.left_side = start_variable
    /\ is_complete(entry.dotted_rule)

\* the test of EarleyParser._recognize and of EarleyChart.parses
IsParseRoot(entry, start_variable, n) ==
    /\ entry.dotted_rule.rule.left_side = start_variable
    /\ entry.dotted_rule.span = <<0, n>>
    /\ is_complete(entry.dotted_rule)

\* _construct_parses: the entries of chart[position] a backpointer can name
PotentialChildren(ch, symbol, pos) ==
    {potential_child \in ch[pos] :
        /\ potential_child.dotted_rule.rule.left_side = symbol
        /\ is_complete(potential_child.dotted_rule)}

BackPointers(ch) ==
    UNION {{e.backpointers[i] : i \in DOMAIN e.backpointers} :
              e \in UNION {ch[p] : p \in DOMAIN ch}}

\* The loop of _construct_parses breaks at the first match, in the
\* iteration order of the set chart[position]: one entry for each symbol
\* and position that has a match, any of the matching ones.
RECURSIVE FirstMatches(_, _)
FirstMatches(ch, keys) ==
    IF keys = {} THEN {<<>>}
    ELSE LET k == CHOOSE x \in keys : TRUE
         IN  {(k :> c) @@ f :
                 c \in PotentialChildren(ch, k[1], k[2]),
                 f \in FirstMatches(ch, keys \ {k})}

EarleyFirstMatches(ch) ==
    FirstMatches(ch, {bp \in BackPointers(ch) :
                         PotentialChildren(ch, bp[1], bp[2]) # {}})

RECURSIVE ConstructParses(_, _)
RECURSIVE ConstructChildren(_, _)
\* _construct_parses(entry)
ConstructParses(first, entry) ==
    Tree(entry.dotted_rule.rule.left_side,
         ConstructChildren(first, entry.backpointers))

ConstructChildren(first, backpointers) ==
    IF backpointers = <<>> THEN <<>>
    ELSE (IF Head(backpointers) \in DOMAIN first
          THEN <<ConstructParses(first, first[Head(backpointers)])>>
          ELSE <<>>)
         \o ConstructChildren(first, Tail(backpointers))

\* EarleyChart.input_size; chart[-1] is chart[input_size]
EarleyInputSize(ch) == Cardinality(DOMAIN ch) - 1

\* EarleyChart.parses
EarleyParses(ch, start_variable, first) ==
    {ConstructParses(first, entry) :
        entry \in {e \in ch[EarleyInputSize(ch)] :
                      IsParseRoot(e, start_variable, EarleyInputSize(ch))}}

\* EarleyParser._recognize
EarleyRecognize(ch, start_variable, n) ==
    \E entry \in ch[EarleyInputSize(ch)] : IsParseRoot(entry, start_variable, n)

EarleyReturn ==
    /\ pc = "filled"
    /\ IsEarley(current)
    /\ IF current = "earley_recognize"
       THEN result' = [result EXCEPT ![current] =
                Returned(EarleyRecognize(echart, grammar.start_variable,
                                         Len(string)),
                         NegInf, {}, {}, 0)]
       ELSE \E first \in EarleyFirstMatches(echart) :
                LET parses == EarleyParses(echart, grammar.start_variable, first)
                IN  result' = [result EXCEPT ![current] =
                        Returned(FALSE, NegInf, parses, {},
                                 Cardinality(parses))]
    /\ todo' = Tail(todo)
    /\ pc' = "idle"
    /\ UNCHANGED <<grammar, string, chart, loop, echart, position, self_string>>
    /\ UNCHANGED <<concurrent, library, editing>>

(***************************************************************************)
(* Earley: two calls at the same time                                      *)
(*                                                                         *)
(* A call keeps its string, its chart and its position in local variables; *)
(* _fill_chart stores the string in self._string, an attribute of the      *)
(* parser object, and _scan reads the word from there.  seen holds the     *)
(* values self._string has had since the call reached its position: in the *)
(* last pass over chart[position], the one that changes nothing, every     *)
(* entry was scanned against one of them.                                  *)
(***************************************************************************)
MaxThreadLen == 2

Threads == {1, 2}

Modes == {"recognize", "parse"}

ConcurrentGrammars == {AnBnGrammar, StarGrammar}

Thread(parser, w, mode) ==
    [parser |-> parser, string |-> w, mode |-> mode, pc |-> "idle",
     chart |-> <<>>, position |-> 0, seen |-> {}, result |-> NoResult]

\* the threads that use the parser object of thread t, t excepted
Sharing(t) == {u \in Threads \ {t} : threads[u].parser = threads[t].parser}

\* _fill_chart, up to the loop over the positions: self._string = string
ThreadCall(t) ==
    LET th == threads[t]
    IN  /\ th.pc = "idle"
        /\ th.result.status = "none"
        /\ parsers' = [parsers EXCEPT ![th.parser] = th.string]
        /\ threads' = [u \in Threads |->
               IF u = t
               THEN [th EXCEPT !.chart = EarleyChartInit(grammar, Len(th.string)),
                               !.position = 0,
                               !.seen = {th.string},
                               !.pc = "fill"]
               ELSE IF u \in Sharing(t) /\ threads[u].pc = "fill"
               THEN [threads[u] EXCEPT !.seen = @ \cup {th.string}]
               ELSE threads[u]]
        /\ UNCHANGED <<grammar, sequential, library, editing>>

ThreadPredict(t) ==
    LET th == threads[t]
    IN  /\ th.pc = "fill"
        /\ \E entry \in th.chart[th.position] :
            /\ Operation(grammar, entry, th.position, Len(th.string)) = "predict"
            /\ ~(Predicted(grammar, entry, th.position)
                     \subseteq th.chart[th.position])
            /\ threads' = [threads EXCEPT ![t].chart[th.position] =
                    @ \cup Predicted(grammar, entry, th.position)]
        /\ UNCHANGED <<grammar, sequential, parsers, library, editing>>

\* _scan: word = self._string[position]
ThreadScan(t) ==
    LET th == threads[t]
        self_string_now == parsers[th.parser]
    IN  /\ th.pc = "fill"
        /\ th.position < Len(self_string_now)
        /\ \E entry \in th.chart[th.position] :
            /\ Operation(grammar, entry, th.position, Len(th.string)) = "scan"
            /\ LET added == Scanned(self_string_now[th.position + 1], entry,
                                    th.position)
               IN  /\ ~(added \subseteq th.chart[th.position + 1])
                   /\ threads' = [threads EXCEPT ![t].chart[th.position + 1] =
                           @ \cup added]
        /\ UNCHANGED <<grammar, sequential, parsers, library, editing>>

\* _scan: self._string[position] when self._string is too short
ThreadScanIndexError(t) ==
    LET th == threads[t]
    IN  /\ th.pc = "fill"
        /\ ~(th.position < Len(parsers[th.parser]))
        /\ \E entry \in th.chart[th.position] :
               Operation(grammar, entry, th.position, Len(th.string)) = "scan"
        /\ threads' = [threads EXCEPT ![t].result = Raised("IndexError"),
                                      ![t].pc = "idle"]
        /\ UNCHANGED <<grammar, sequential, parsers, library, editing>>

ThreadComplete(t) ==
    LET th == threads[t]
    IN  /\ th.pc = "fill"
        /\ \E entry \in th.chart[th.position] :
            /\ Operation(grammar, entry, th.position, Len(th.string)) = "complete"
            /\ entry.dotted_rule.span[1] # th.position
            /\ ~(Completed(th.chart, entry) \subseteq th.chart[th.position])
            /\ threads' = [threads EXCEPT ![t].chart[th.position] =
                    @ \cup Completed(th.chart, entry)]
        /\ UNCHANGED <<grammar, sequential, parsers, library, editing>>

\* _complete on an entry of span (position, position): RuntimeError
ThreadCompleteInPlace(t) ==
    LET th == threads[t]
    IN  /\ th.pc = "fill"
        /\ \E entry \in th.chart[th.position] :
            /\ Operation(grammar, entry, th.position, Len(th.string)) = "complete"
            /\ entry.dotted_rule.span[1] = th.position
            /\ \E new_entry \in Completed(th.chart, entry) \ th.chart[th.position] :
                threads' = [threads EXCEPT
                    ![t].chart[th.position] = @ \cup {new_entry},
                    ![t].result = Raised("RuntimeError"),
                    ![t].pc = "idle"]
        /\ UNCHANGED <<grammar, sequential, parsers, library, editing>>

\* a pass over chart[pos] changes nothing, each scan reading one of seen
ThreadClosed(G, ch, n, seen, pos) ==
    \A entry \in ch[pos] :
        LET op == Operation(G, entry, pos, n)
        IN  /\ op = "predict" => Predicted(G, entry, pos) \subseteq ch[pos]
            /\ op = "scan" =>
                   \E w \in seen :
                       /\ pos < Len(w)
                       /\ Scanned(w[pos + 1], entry, pos) \subseteq ch[pos + 1]
            /\ op = "complete" => Completed(ch, entry) \subseteq ch[pos]

ThreadAdvance(t) ==
    LET th == threads[t]
    IN  /\ th.pc = "fill"
        /\ ThreadClosed(grammar, th.chart, Len(th.string), th.seen, th.position)
        /\ threads' = [threads EXCEPT ![t] =
               IF th.position < Len(th.string)
               THEN [th EXCEPT !.position = th.position + 1,
                               !.seen = {parsers[th.parser]}]
               ELSE [th EXCEPT !.pc = "filled"]]
        /\ UNCHANGED <<grammar, sequential, parsers, library, editing>>

\* EarleyParser._recognize and EarleyParser._parse on the call's chart
ThreadReturn(t) ==
    LET th == threads[t]
    IN  /\ th.pc = "filled"
        /\ IF th.mode = "recognize"
           THEN threads' = [threads EXCEPT
                    ![t].result =
                        Returned(EarleyRecognize(th.chart, grammar.start_variable,
                                                 Len(th.string)),
                                 NegInf, {}, {}, 0),
                    ![t].pc = "idle"]
           ELSE \E first \in EarleyFirstMatches(th.chart) :
                    LET parses == EarleyParses(th.chart, grammar.start_variable,
                                               first)
                    IN  threads' = [threads EXCEPT
                            ![t].result = Returned(FALSE, NegInf, parses, {},
                                                   Cardinality(parses)),
                            ![t].pc = "idle"]
        /\ UNCHANGED <<grammar, sequential, parsers, library, editing>>

(***************************************************************************)
(* Grammar objects: the constructors, rules, reduce and the operations     *)
(*                                                                         *)
(* A grammar object keeps the set it was given as its rules: sets holds    *)
(* the set objects, objects[o].rules names one of them.                    *)
(***************************************************************************)
MaxObjects == 3

\* ProbabilisticRule(left_side, *right_side): logprob=None
NoLogprob == -1

Arguments(class, alphabet, variables, rules, start_variable) ==
    [class |-> class, alphabet |-> alphabet, variables |-> variables,
     rules |-> rules, start_variable |-> start_variable]

NoArguments == Arguments("", {}, {}, {}, "")

Object(class, alphabet, variables, rules, start_variable) ==
    [class |-> class, alphabet |-> alphabet, variables |-> variables,
     rules |-> rules, start_variable |-> start_variable]

Outcome(op, arguments, operands, status, error, object, value) ==
    [op |-> op, arguments |-> arguments, operands |-> operands,
     status |-> status, error |-> error, object |-> object, value |-> value]

NoOutcome == Outcome("none", NoArguments, <<>>, "none", "", 0, {})

\* two grammars that share the variables S and A
SharedLeftGrammar ==
    ContextFreeGrammar({"a"}, {"S", "A"},
                       {Rule("S", <<"A">>), Rule("A", <<"a">>)}, "S")

SharedRightGrammar ==
    ContextFreeGrammar({"b", "c"}, {"S", "A"},
                       {Rule("S", <<"A", "b">>), Rule("A", <<"c">>)}, "S")

\* a grammar whose alphabet holds a variable of the two above
TokenAGrammar ==
    ContextFreeGrammar({"A"}, {"S"}, {Rule("S", <<"A">>)}, "S")

\* the documented grammars of adjectives and of nouns
AdjGrammar ==
    ContextFreeGrammar(
        {"happy", "kind", "un", "ly"},
        {"Word", "Adj", "Adv", "Prefix"},
        {Rule("Adj", <<"happy">>),
         Rule("Adj", <<"kind">>),
         Rule("Word", <<"Adj">>),
         Rule("Word", <<"Adv">>),
         Rule("Adj", <<"Prefix", "Adj">>),
         Rule("Adv", <<"Adj", "ly">>),
         Rule("Prefix", <<"un">>)},
        "Word")

NounGrammar ==
    ContextFreeGrammar(
        {"happy", "kind", "ness", "ity"},
        {"Word", "Adj", "N", "Suffix"},
        {Rule("Adj", <<"happy">>),
         Rule("Adj", <<"kind">>),
         Rule("Word", <<"N">>),
         Rule("N", <<"Adj", "Suffix">>),
         Rule("Suffix", <<"ness">>),
         Rule("Suffix", <<"ity">>)},
        "Word")

CfgArguments == {SharedLeftGrammar, SharedRightGrammar, TokenAGrammar,
                 AdjGrammar, NounGrammar}

PcfgArguments == {OptionalGrammar}

\* the rules, or the rules with the logprob of one of them replaced
Relabelled(rules) ==
    {rules} \cup
    {(rules \ {r}) \cup {ProbabilisticRule(r.left_side, r.right_side, lp)} :
        r \in rules, lp \in {Half(2), NoLogprob}}

\* the arguments made of a grammar: its own, and the same with the start
\* variable in the alphabet or with a start variable that is no variable
ArgumentsFrom(class, G, rule_sets) ==
    {Arguments(class, G.alphabet \cup extra, G.variables, rules,
               start_variable) :
        rules \in rule_sets,
        extra \in {{}, {G.start_variable}},
        start_variable \in {G.start_variable, "Q"}}

\* what the constructors are called with
ConstructorArguments ==
    UNION {ArgumentsFrom("ContextFreeGrammar", G, {G.rules}) :
              G \in CfgArguments}
    \cup
    UNION {ArgumentsFrom("ProbabilisticContextFreeGrammar", G,
                         Relabelled(G.rules)) : G \in PcfgArguments}

\* _validate_variables without the check of the start variable
ValidateVariablesOverlapOnly(alphabet, variables, start_variable) ==
    IF alphabet \cap variables # {}
    THEN "ValueError: alphabet and variables must not share elements"
    ELSE "ok"

\* _validate_variables: the error it raises, or "ok"
ValidateVariables(alphabet, variables, start_variable) ==
    IF alphabet \cap variables # {}
    THEN "ValueError: alphabet and variables must not share elements"
    ELSE IF start_variable \notin variables
    THEN "ValueError: start variable must be in set of variables"
    ELSE "ok"

\* the rules with one left side
Headed(rules, left_side) == {r \in rules : r.left_side = left_side}

\* np.exp(logsumexp(lps)) over the rules of one left side
RECURSIVE SumProb(_)
SumProb(rules) ==
    IF rules = {} THEN NegInf
    ELSE LET r == CHOOSE r \in rules : TRUE
         IN  LogSumExp(r.logprob, SumProb(rules \ {r}))

\* np.isclose(sum_prob, 1.0, rtol=1e-5): |sum_prob - 1.0| <= rtol * 1.0,
\* the default atol of 1e-8 being below one unit of LogScale
IsCloseToOne(sum_prob) ==
    LET diff == IF sum_prob >= LogScale THEN sum_prob - LogScale
                ELSE LogScale - sum_prob
    IN  diff * 100000 <= LogScale

\* ProbabilisticContextFreeGrammar._validate_rules: the errors it can raise,
\* one for each left side that can be the first to fail.  logsumexp of a
\* list that holds None raises TypeError.  The rules are taken to pass
\* r.validate.
ValidateRules(rules) ==
    {IF \E r \in Headed(rules, nt) : r.logprob = NoLogprob
     THEN "TypeError"
     ELSE "ValueError: Rules sum to sum_prob, not 1.0" :
        nt \in {nt \in {r.left_side : r \in rules} :
                   \/ \E r \in Headed(rules, nt) : r.logprob = NoLogprob
                   \/ ~IsCloseToOne(SumProb(Headed(rules, nt)))}}

\* __init__: the errors the constructor can raise
ConstructorErrors(args) ==
    LET checked == ValidateVariables(args.alphabet, args.variables,
                                     args.start_variable)
    IN  IF checked # "ok" THEN {checked}
        ELSE IF args.class = "ProbabilisticContextFreeGrammar"
        THEN ValidateRules(args.rules)
        ELSE {}

\* __init__ called with the set object rules: the new object keeps it
New(op, args, operands, rules) ==
    IF ConstructorErrors(args) = {}
    THEN /\ objects' = Append(objects,
                Object(args.class, args.alphabet, args.variables, rules,
                       args.start_variable))
         /\ outcome' = Outcome(op, args, operands, "returned", "",
                               Len(objects) + 1, {})
    ELSE /\ \E error \in ConstructorErrors(args) :
                outcome' = Outcome(op, args, operands, "raised", error, 0, {})
         /\ UNCHANGED objects

\* the objects kept: the grammars and the results the caches hold
Kept == Len(objects) + Cardinality(rules_cache) + Cardinality(reduce_cache)

\* ContextFreeGrammar(...) and ProbabilisticContextFreeGrammar(...)
Construct ==
    /\ Kept < MaxObjects
    /\ \E args \in ConstructorArguments :
        /\ sets' = IF ConstructorErrors(args) = {}
                   THEN Append(sets, args.rules) ELSE sets
        /\ New("construct", args, <<>>, Len(sets) + 1)
    /\ UNCHANGED <<rules_cache, reduce_cache, cky_chart>>
    /\ UNCHANGED <<grammar, sequential, concurrent, editing>>

IsGrammar(o) == objects[o].class = "ContextFreeGrammar"

\* self.rules(): the set object itself
union ==
    /\ Kept < MaxObjects
    /\ \E self, other \in DOMAIN objects :
        /\ IsGrammar(self) /\ IsGrammar(other)
        /\ LET new_start ==
                   FreshVariable("S_union", objects[self].variables
                                            \cup objects[other].variables)
               rules == sets[objects[self].rules]
                        \cup sets[objects[other].rules]
                        \cup {Rule(new_start, <<objects[self].start_variable>>),
                              Rule(new_start, <<objects[other].start_variable>>)}
               args == Arguments("ContextFreeGrammar",
                           objects[self].alphabet \cup objects[other].alphabet,
                           objects[self].variables \cup objects[other].variables
                               \cup {new_start},
                           rules, new_start)
           IN  /\ sets' = IF ConstructorErrors(args) = {}
                          THEN Append(sets, rules) ELSE sets
               /\ New("union", args, <<self, other>>, Len(sets) + 1)
    /\ UNCHANGED <<rules_cache, reduce_cache, cky_chart>>
    /\ UNCHANGED <<grammar, sequential, concurrent, editing>>

concatenate ==
    /\ Kept < MaxObjects
    /\ \E self, other \in DOMAIN objects :
        /\ IsGrammar(self) /\ IsGrammar(other)
        /\ LET new_start ==
                   FreshVariable("S_concat", objects[self].variables
                                             \cup objects[other].variables)
               rules == sets[objects[self].rules]
                        \cup sets[objects[other].rules]
                        \cup {Rule(new_start, <<objects[self].start_variable,
                                                objects[other].start_variable>>)}
               args == Arguments("ContextFreeGrammar",
                           objects[self].alphabet \cup objects[other].alphabet,
                           objects[self].variables \cup objects[other].variables
                               \cup {new_start},
                           rules, new_start)
           IN  /\ sets' = IF ConstructorErrors(args) = {}
                          THEN Append(sets, rules) ELSE sets
               /\ New("concatenate", args, <<self, other>>, Len(sets) + 1)
    /\ UNCHANGED <<rules_cache, reduce_cache, cky_chart>>
    /\ UNCHANGED <<grammar, sequential, concurrent, editing>>

\* rules = self.rules(); rules.add(...); rules.add(...): the rules are added
\* to the set object of self, and the new grammar is given that set object
kleene_star_method ==
    /\ Kept < MaxObjects
    /\ \E self \in DOMAIN objects :
        /\ IsGrammar(self)
        /\ LET new_start == FreshVariable("S_star", objects[self].variables)
               rules == sets[objects[self].rules]
                        \cup {Rule(new_start, <<new_start,
                                                objects[self].start_variable>>),
                              Rule(new_start, <<>>)}
               args == Arguments("ContextFreeGrammar",
                           objects[self].alphabet,
                           objects[self].variables \cup {new_start},
                           rules, new_start)
           IN  /\ sets' = [sets EXCEPT ![objects[self].rules] = rules]
               /\ New("kleene_star", args, <<self>>, objects[self].rules)
    /\ UNCHANGED <<rules_cache, reduce_cache, cky_chart>>
    /\ UNCHANGED <<grammar, sequential, concurrent, editing>>

QueriedLeftSides == {"S", "Word", "S_star"}

QueriedRightSides == {<<>>, <<"a">>}

Cached(cache, self, argument) ==
    {e \in cache : e.self = self /\ e.argument = argument}

\* what self.rules(left_side) returns: the cached set, or the rules now
RulesResult(self, left_side) ==
    IF Cached(rules_cache, self, left_side) # {}
    THEN (CHOOSE e \in Cached(rules_cache, self, left_side) : TRUE).value
    ELSE Headed(sets[objects[self].rules], left_side)

\* what self.reduce(*right_side) returns: the cached set, or the reduction now
ReduceResult(self, right_side) ==
    IF Cached(reduce_cache, self, right_side) # {}
    THEN (CHOOSE e \in Cached(reduce_cache, self, right_side) : TRUE).value
    ELSE {r.left_side : r \in {r \in sets[objects[self].rules] :
                                  r.right_side = right_side}}

\* self.rules(left_side), under lru_cache
rules_call ==
    /\ \E self \in DOMAIN objects : \E left_side \in QueriedLeftSides :
        /\ IsGrammar(self)
        /\ Cached(rules_cache, self, left_side) = {} => Kept < MaxObjects
        /\ rules_cache' = rules_cache \cup
               {[self |-> self, argument |-> left_side,
                 value |-> RulesResult(self, left_side)]}
        /\ outcome' = Outcome("rules", NoArguments, <<self>>, "returned", "",
                              0, RulesResult(self, left_side))
    /\ UNCHANGED <<objects, sets, reduce_cache, cky_chart>>
    /\ UNCHANGED <<grammar, sequential, concurrent, editing>>

\* self.reduce(*right_side), under lru_cache
reduce_call ==
    /\ \E self \in DOMAIN objects : \E right_side \in QueriedRightSides :
        /\ IsGrammar(self)
        /\ Cached(reduce_cache, self, right_side) = {} => Kept < MaxObjects
        /\ reduce_cache' = reduce_cache \cup
               {[self |-> self, argument |-> right_side,
                 value |-> ReduceResult(self, right_side)]}
        /\ outcome' = Outcome("reduce", NoArguments, <<self>>, "returned", "",
                              0, ReduceResult(self, right_side))
    /\ UNCHANGED <<objects, sets, rules_cache, cky_chart>>
    /\ UNCHANGED <<grammar, sequential, concurrent, editing>>

(***************************************************************************)
(* The CKY chart used on its own: chart[i, j] and chart[i, j] = item       *)
(***************************************************************************)
MaxInputSize == 1

\* the indices tried: those of the chart, the negative ones that a list
\* takes, and one beyond at each end
Indices == (0 - (MaxInputSize + 2)) .. (MaxInputSize + 1)

\* the sets written into a cell
Items == {{}, {PlainEntry("S", <<>>)}}

\* CKYChart.input_size
InputSize(ch) ==
    CHOOSE n \in 0..MaxInputSize : DOMAIN ch = (0..n) \X (0..n)

\* list[k] of a list of input_size + 1 elements: the place read, if any
ListIndex(n, k) == IF k < 0 THEN k + n + 1 ELSE k

InList(n, k) == 0 - (n + 1) <= k /\ k <= n

\* CKYChart(input_size)
CKYChart_init ==
    /\ \E input_size \in 0..MaxInputSize :
        /\ cky_chart' = CKYChartInit(input_size)
        /\ outcome' = Outcome("CKYChart", NoArguments, <<input_size>>,
                              "returned", "", 0, {})
    /\ UNCHANGED <<objects, sets, rules_cache, reduce_cache>>
    /\ UNCHANGED <<grammar, sequential, concurrent, editing>>

\* CKYChart.__getitem__: _validate_index, then self._chart[i][j]
getitem ==
    /\ \E i, j \in Indices :
        LET n == InputSize(cky_chart)
        IN  outcome' =
                IF ValidateIndex(n, i, j) = "ok"
                THEN Outcome("getitem", NoArguments, <<i, j>>, "returned", "",
                             0, cky_chart[<<ListIndex(n, i), ListIndex(n, j)>>])
                ELSE Outcome("getitem", NoArguments, <<i, j>>, "raised",
                             ValidateIndex(n, i, j), 0, {})
    /\ UNCHANGED <<objects, sets, rules_cache, reduce_cache, cky_chart>>
    /\ UNCHANGED <<grammar, sequential, concurrent, editing>>

\* CKYChart.__setitem__: self._chart[i][j] = item, with no _validate_index
setitem ==
    /\ \E i, j \in Indices : \E item \in Items :
        LET n == InputSize(cky_chart)
        IN  IF InList(n, i) /\ InList(n, j)
            THEN /\ cky_chart' = [cky_chart EXCEPT
                        ![<<ListIndex(n, i), ListIndex(n, j)>>] = item]
                 /\ outcome' = Outcome("setitem", NoArguments, <<i, j>>,
                                       "returned", "", 0, item)
            ELSE /\ outcome' = Outcome("setitem", NoArguments, <<i, j>>,
                                       "raised", "IndexError", 0, item)
                 /\ UNCHANGED cky_chart
    /\ UNCHANGED <<objects, sets, rules_cache, reduce_cache>>
    /\ UNCHANGED <<grammar, sequential, concurrent, editing>>

(***************************************************************************)
(* Levenshtein distance: StringEdit1 and StringEdit3                       *)
(***************************************************************************)
MaxCost == 2

MaxEditLen == 2

Characters == {"a", "b"}

\* substitution_cost=None
NoCost == -1

Costs == 0..MaxCost

\* StringEdit1.__init__, which StringEdit3 inherits
StringEdit1(insertion_cost, deletion_cost, substitution_cost) ==
    [insertion_cost |-> insertion_cost,
     deletion_cost |-> deletion_cost,
     substitution_cost |->
         IF substitution_cost = NoCost
         THEN insertion_cost + deletion_cost
         ELSE substitution_cost]

Min(values) == CHOOSE x \in values : \A y \in values : x <= y

\* source[:-1]
ButLast(s) == SubSeq(s, 1, Len(s) - 1)

\* StringEdit1._naive_levenshtein
RECURSIVE naive_levenshtein(_, _, _)
naive_levenshtein(self, source, target) ==
    IF Len(source) = 0 THEN self.insertion_cost * Len(target)
    ELSE IF Len(target) = 0 THEN self.deletion_cost * Len(source)
    ELSE LET sub_cost ==
                 IF source[Len(source)] = target[Len(target)]
                 THEN 0
                 ELSE self.substitution_cost
         IN  Min({naive_levenshtein(self, ButLast(source), target)
                      + self.deletion_cost,
                  naive_levenshtein(self, source, ButLast(target))
                      + self.insertion_cost,
                  naive_levenshtein(self, ButLast(source), ButLast(target))
                      + sub_cost})

\* the local variables of _wagner_fisher; at is the loop it is in
Frame(at, source, target, distance, i, j) ==
    [at |-> at, source |-> source, target |-> target, distance |-> distance,
     i |-> i, j |-> j]

NoFrame == Frame("idle", <<>>, <<>>, <<>>, 0, 0)

\* a character of '#'+source by its Python index
CharAt(s, index) == s[index + 1]

\* the costs array of one cell, with every pair of characters substituted
CellCostsAlwaysSubstituting(self, wf) ==
    {wf.distance[<<wf.i - 1, wf.j>>] + self.deletion_cost,
     wf.distance[<<wf.i - 1, wf.j - 1>>] + self.substitution_cost,
     wf.distance[<<wf.i, wf.j - 1>>] + self.insertion_cost}

\* the costs array of one cell of the double loop of _wagner_fisher
CellCosts(self, wf) ==
    LET substitution_cost ==
            IF CharAt(wf.source, wf.i) = CharAt(wf.target, wf.j)
            THEN 0
            ELSE self.substitution_cost
    IN  {wf.distance[<<wf.i - 1, wf.j>>] + self.deletion_cost,
         wf.distance[<<wf.i - 1, wf.j - 1>>] + substitution_cost,
         wf.distance[<<wf.i, wf.j - 1>>] + self.insertion_cost}

\* the value a call returned
Distance(class, source, target, value) ==
    [class |-> class, source |-> source, target |-> target, value |-> value]

\* the calls made on a pair of strings: both classes, both orders
EditCalls ==
    <<[class |-> "StringEdit1", order |-> <<1, 2>>],
      [class |-> "StringEdit3", order |-> <<1, 2>>],
      [class |-> "StringEdit1", order |-> <<2, 1>>],
      [class |-> "StringEdit3", order |-> <<2, 1>>]>>

NextEditCall == EditCalls[Len(distances) + 1]

SourceString == edit_strings[NextEditCall.order[1]]

TargetString == edit_strings[NextEditCall.order[2]]

\* StringEdit1.__call__
StringEdit1_call ==
    /\ wagner_fisher.at = "idle"
    /\ Len(distances) < Len(EditCalls)
    /\ NextEditCall.class = "StringEdit1"
    /\ distances' = Append(distances,
           Distance("StringEdit1", SourceString, TargetString,
                    naive_levenshtein(editdist, SourceString, TargetString)))
    /\ UNCHANGED <<editdist, edit_strings, wagner_fisher>>
    /\ UNCHANGED <<grammar, sequential, concurrent, library>>

\* StringEdit3.__call__ and _wagner_fisher up to its first loop
StringEdit3_call ==
    /\ wagner_fisher.at = "idle"
    /\ Len(distances) < Len(EditCalls)
    /\ NextEditCall.class = "StringEdit3"
    /\ wagner_fisher' =
           Frame("deletions", <<"#">> \o SourceString, <<"#">> \o TargetString,
                 [index \in (0..Len(SourceString)) \X (0..Len(TargetString)) |-> 0],
                 1, 0)
    /\ UNCHANGED <<editdist, edit_strings, distances>>
    /\ UNCHANGED <<grammar, sequential, concurrent, library>>

\* for i in range(1,n+1): distance[i,0] = distance[i-1,0]+deletion_cost
DeletionStep ==
    /\ wagner_fisher.at = "deletions"
    /\ LET n == Len(wagner_fisher.source) - 1
           i == wagner_fisher.i
       IN  IF i <= n
           THEN wagner_fisher' = [wagner_fisher EXCEPT
                    !.distance[<<i, 0>>] =
                        wagner_fisher.distance[<<i - 1, 0>>]
                            + editdist.deletion_cost,
                    !.i = i + 1]
           ELSE wagner_fisher' = [wagner_fisher EXCEPT
                    !.at = "insertions", !.j = 1]
    /\ UNCHANGED <<editdist, edit_strings, distances>>
    /\ UNCHANGED <<grammar, sequential, concurrent, library>>

\* for j in range(1,m+1): distance[0,j] = distance[0,j-1]+insertion_cost
InsertionStep ==
    /\ wagner_fisher.at = "insertions"
    /\ LET m == Len(wagner_fisher.target) - 1
           j == wagner_fisher.j
       IN  IF j <= m
           THEN wagner_fisher' = [wagner_fisher EXCEPT
                    !.distance[<<0, j>>] =
                        wagner_fisher.distance[<<0, j - 1>>]
                            + editdist.insertion_cost,
                    !.j = j + 1]
           ELSE wagner_fisher' = [wagner_fisher EXCEPT
                    !.at = "cells", !.i = 1, !.j = 1]
    /\ UNCHANGED <<editdist, edit_strings, distances>>
    /\ UNCHANGED <<grammar, sequential, concurrent, library>>

\* one cell of the double loop: distance[i,j] = costs.min()
CellStep ==
    /\ wagner_fisher.at = "cells"
    /\ LET n == Len(wagner_fisher.source) - 1
           m == Len(wagner_fisher.target) - 1
           i == wagner_fisher.i
           j == wagner_fisher.j
       IN  IF i <= n /\ j <= m
           THEN wagner_fisher' = [wagner_fisher EXCEPT
                    !.distance[<<i, j>>] = Min(CellCosts(editdist, wagner_fisher)),
                    !.i = IF j < m THEN i ELSE i + 1,
                    !.j = IF j < m THEN j + 1 ELSE 1]
           ELSE wagner_fisher' = [wagner_fisher EXCEPT !.at = "return"]
    /\ UNCHANGED <<editdist, edit_strings, distances>>
    /\ UNCHANGED <<grammar, sequential, concurrent, library>>

\* return distance[n,m]
WagnerFisherReturn ==
    /\ wagner_fisher.at = "return"
    /\ LET n == Len(wagner_fisher.source) - 1
           m == Len(wagner_fisher.target) - 1
       IN  distances' = Append(distances,
               Distance("StringEdit3", Tail(wagner_fisher.source),
                        Tail(wagner_fisher.target),
                        wagner_fisher.distance[<<n, m>>]))
    /\ wagner_fisher' = [wagner_fisher EXCEPT !.at = "idle"]
    /\ UNCHANGED <<editdist, edit_strings>>
    /\ UNCHANGED <<grammar, sequential, concurrent, library>>

(***************************************************************************)
(* Specification                                                           *)
(***************************************************************************)
\* no grammar object and no chart used on its own
NoLibrary ==
    /\ objects = <<>>
    /\ sets = <<>>
    /\ rules_cache = {}
    /\ reduce_cache = {}
    /\ cky_chart = CKYChartInit(0)
    /\ outcome = NoOutcome

\* no call on a StringEdit object
NoEditing ==
    /\ editdist = StringEdit1(1, 1, NoCost)
    /\ edit_strings = <<<<>>, <<>>>>
    /\ wagner_fisher = NoFrame
    /\ distances = <<>>

\* no call made one after the other
NoCalls ==
    /\ string = <<>>
    /\ todo = <<>>
    /\ pc = "idle"
    /\ chart = <<>>
    /\ loop = LoopDone
    /\ echart = <<>>
    /\ position = 0
    /\ self_string = <<>>
    /\ result = [c \in Calls |-> NoResult]

Init ==
    /\ grammar \in Grammars
    /\ string \in Inputs(grammar)
    /\ todo = CallOrder(grammar)
    /\ pc = "idle"
    /\ chart = <<>>
    /\ loop = LoopDone
    /\ echart = <<>>
    /\ position = 0
    /\ self_string = <<>>
    /\ result = [c \in Calls |-> NoResult]
    /\ threads = <<>>
    /\ parsers = <<>>
    /\ NoLibrary
    /\ NoEditing

Next ==
    \/ CKYCall
    \/ PlainBaseStep
    \/ PlainSplitStep
    \/ PcfgBaseStep
    \/ PcfgSplitStep
    \/ CKYFilled
    \/ PlainReturn
    \/ PcfgReturn
    \/ EarleyCall
    \/ PredictStep
    \/ ScanStep
    \/ CompleteStep
    \/ CompleteInPlace
    \/ EarleyAdvance
    \/ EarleyReturn

Spec == Init /\ [][Next]_vars

\* two calls on different inputs, on one parser object or on two
InitConcurrent ==
    /\ grammar \in ConcurrentGrammars
    /\ NoCalls
    /\ NoLibrary
    /\ NoEditing
    /\ \E w1, w2 \in Strings(grammar.alphabet, MaxThreadLen) :
       \E m1, m2 \in Modes :
       \E parser2 \in {1, 2} :
           /\ w1 # w2
           /\ threads = [t \in Threads |->
                  IF t = 1 THEN Thread(1, w1, m1) ELSE Thread(parser2, w2, m2)]
    /\ parsers = [o \in {1, 2} |-> <<>>]

NextConcurrent ==
    \E t \in Threads :
        \/ ThreadCall(t)
        \/ ThreadPredict(t)
        \/ ThreadScan(t)
        \/ ThreadScanIndexError(t)
        \/ ThreadComplete(t)
        \/ ThreadCompleteInPlace(t)
        \/ ThreadAdvance(t)
        \/ ThreadReturn(t)

SpecConcurrent == InitConcurrent /\ [][NextConcurrent]_vars

\* grammar objects constructed, queried and combined
InitGrammars ==
    /\ grammar = BaseGrammar
    /\ NoCalls
    /\ threads = <<>>
    /\ parsers = <<>>
    /\ NoLibrary
    /\ NoEditing

NextGrammars ==
    \/ Construct
    \/ union
    \/ concatenate
    \/ kleene_star_method
    \/ rules_call
    \/ reduce_call

SpecGrammars == InitGrammars /\ [][NextGrammars]_vars

\* a chart created, read and written through its indices
NextChart ==
    \/ CKYChart_init
    \/ getitem
    \/ setitem

SpecChart == InitGrammars /\ [][NextChart]_vars

\* both distances taken between two strings, in both orders
InitEdit ==
    /\ grammar = BaseGrammar
    /\ NoCalls
    /\ threads = <<>>
    /\ parsers = <<>>
    /\ NoLibrary
    /\ editdist \in {StringEdit1(ins, del, sub) :
                        ins \in Costs, del \in Costs, sub \in Costs \cup {NoCost}}
    /\ edit_strings \in Strings(Characters, MaxEditLen) \X Strings(Characters, MaxEditLen)
    /\ wagner_fisher = NoFrame
    /\ distances = <<>>

NextEdit ==
    \/ StringEdit1_call
    \/ StringEdit3_call
    \/ DeletionStep
    \/ InsertionStep
    \/ CellStep
    \/ WagnerFisherReturn

SpecEdit == InitEdit /\ [][NextEdit]_vars

(***************************************************************************)
(* What the grammar derives: the reference the parsers are held against    *)
(***************************************************************************)
\* Chomsky Normal Form: every rule is A -> B C or A -> a
IsCNF(G) ==
    \A r \in Rules(G) :
        \/ Len(r.right_side) = 2
           /\ r.right_side[1] \in G.variables
           /\ r.right_side[2] \in G.variables
        \/ Len(r.right_side) = 1
           /\ r.right_side[1] \in G.alphabet

\* right_side derives w[i+1..j], the spans in D being derived by variables
RECURSIVE SequenceSpans(_, _, _, _, _, _)
SequenceSpans(G, D, w, right_side, i, j) ==
    IF right_side = <<>> THEN i = j
    ELSE LET X == Head(right_side)
         IN  \E m \in i..j :
                 /\ IF X \in G.variables
                    THEN <<X, i, m>> \in D
                    ELSE m = i + 1 /\ w[m] = X
                 /\ SequenceSpans(G, D, w, Tail(right_side), m, j)

\* the least set of (variable, i, j) closed under the rules of the grammar
RECURSIVE DerivedSpans(_, _, _)
DerivedSpans(G, D, w) ==
    LET n == Len(w)
        step == {item \in G.variables \X (0..n) \X (0..n) :
                    /\ item[2] <= item[3]
                    /\ \E r \in RulesFor(G, item[1]) :
                           SequenceSpans(G, D, w, r.right_side, item[2], item[3])}
    IN  IF step \subseteq D THEN D ELSE DerivedSpans(G, D \cup step, w)

\* X derives w[i+1..j], the tokens between the positions i and j
Derives(G, X, w, i, j) == <<X, i, j>> \in DerivedSpans(G, {}, w)

StartDerives == Derives(grammar, grammar.start_variable, string, 0, Len(string))

\* the derivation trees of w[i+1..j] from X under a grammar in CNF
RECURSIVE DerivationTrees(_, _, _, _, _)
DerivationTrees(G, X, w, i, j) ==
    IF j = i + 1
    THEN {Tree(X, <<Tree(w[j], <<>>)>>) :
             r \in {r \in RulesFor(G, X) : r.right_side = <<w[j]>>}}
    ELSE UNION {UNION {
             {Tree(X, <<left, right>>) :
                 left \in DerivationTrees(G, r.right_side[1], w, i, k),
                 right \in DerivationTrees(G, r.right_side[2], w, k, j)} :
             k \in (i + 1)..(j - 1)} :
         r \in {r \in RulesFor(G, X) : Len(r.right_side) = 2}}

\* a derivation tree as the chart of cky-parsing.qmd spells it: the node of
\* a rule A -> a carries no child
RECURSIVE WithoutTokens(_)
WithoutTokens(t) ==
    IF Len(t.children) = 2
    THEN Tree(t.data, <<WithoutTokens(t.children[1]), WithoutTokens(t.children[2])>>)
    ELSE Tree(t.data, <<>>)

RECURSIVE Leaves(_)
RECURSIVE LeavesOfAll(_)
Leaves(t) == IF t.children = <<>> THEN <<t.data>> ELSE LeavesOfAll(t.children)

LeavesOfAll(ts) ==
    IF ts = <<>> THEN <<>> ELSE Leaves(Head(ts)) \o LeavesOfAll(Tail(ts))

RECURSIVE NodesAreRules(_, _)
NodesAreRules(G, t) ==
    \/ t.children = <<>>
    \/ /\ Rule(t.data, [c \in DOMAIN t.children |-> t.children[c].data]) \in Rules(G)
       /\ \A c \in DOMAIN t.children : NodesAreRules(G, t.children[c])

Leaf(data) == Tree(data, <<>>)

ParserModes ==
    {<<"cky_recognize", "cky_parse">>, <<"pcfg_recognize", "pcfg_parse">>,
     <<"earley_recognize", "earley_parse">>}

Called(call) == result[call].status # "none"

HasReturned(call) == result[call].status = "returned"

\* the call reported the input as recognized
Recognizes(call) ==
    /\ HasReturned(call)
    /\ IF call = "pcfg_recognize"
       THEN result[call].logprob > NegInf
       ELSE result[call].recognized

\* the call returned a non-empty collection of trees
ReturnsTrees(call) == HasReturned(call) /\ result[call].count > 0

(***************************************************************************)
(* The claims                                                              *)
(***************************************************************************)
\* C1: for every grammar and input and each parser, mode "recognize"
\* reports the input as recognized (true, or a log-probability above minus
\* infinity for the PCFG parser) iff mode "parse" on the same input returns
\* a non-empty collection of trees.
C1_RecognizeIffParse ==
    \A m \in ParserModes :
        Called(m[2]) => (Recognizes(m[1]) <=> ReturnsTrees(m[2]))

\* C2: for a grammar in CNF and a non-empty input, the trees the CKY
\* chart's parses returns are exactly the distinct derivation trees of the
\* whole input from the start symbol: none is left out, none comes twice,
\* none is rooted in another symbol.
C2_CKYParsesAreTheDerivations ==
    IsCNF(grammar) /\ string # <<>> =>
        LET derivations ==
                DerivationTrees(grammar, grammar.start_variable, string,
                                0, Len(string))
        IN  /\ Called("cky_parse") =>
                /\ HasReturned("cky_parse")
                /\ result["cky_parse"].trees =
                       {WithoutTokens(t) : t \in derivations}
                /\ result["cky_parse"].count = Cardinality(derivations)
            /\ Called("pcfg_parse") =>
                /\ HasReturned("pcfg_parse")
                /\ result["pcfg_parse"].trees = derivations
                /\ result["pcfg_parse"].count = Cardinality(derivations)

\* C3: for ["un","lock","able"] under the ambiguous grammar the last chart
\* position of the Earley chart holds two distinct completed entries
\* Word -> Adj . [0,3], one for each analysis of Adj, and parsing returns
\* exactly 2 distinct trees.
C3_UnlockableHasTwoParses ==
    /\ grammar = AmbiguousGrammar
    /\ string = <<"un", "lock", "able">>
    /\ Called("earley_parse")
    => /\ HasReturned("earley_parse")
       /\ Cardinality({entry \in echart[3] :
              entry.dotted_rule =
                  DottedRule(Rule("Word", <<"Adj">>), <<0, 3>>, 1)}) = 2
       /\ result["earley_parse"].count = 2
       /\ Cardinality(result["earley_parse"].trees) = 2

\* C4: every tree a parse returns has at every internal node a label and
\* ordered child labels that form a rule of the grammar, and its leaf
\* labels from left to right are the input token sequence.
C4_TreesAreDerivationsOfTheInput ==
    \A m \in ParserModes :
        \A t \in result[m[2]].trees :
            NodesAreRules(grammar, t) /\ Leaves(t) = string

\* C5: under the grammar of unhappiness the Earley parser recognizes
\* ["un","happy","ness"] and parse mode returns exactly the tree
\* Word(N(Adj(Prefix(un),Adj(happy)),Suffix(ness))).
C5_UnhappinessTree ==
    /\ grammar = UnhappyGrammar
    /\ string = <<"un", "happy", "ness">>
    /\ Called("earley_parse")
    => /\ Recognizes("earley_recognize")
       /\ HasReturned("earley_parse")
       /\ result["earley_parse"].count = 1
       /\ result["earley_parse"].trees =
              {Tree("Word", <<
                   Tree("N", <<
                       Tree("Adj", <<Tree("Prefix", <<Leaf("un")>>),
                                     Tree("Adj", <<Leaf("happy")>>)>>),
                       Tree("Suffix", <<Leaf("ness")>>)>>)>>)}

\* C6: for every grammar in CNF and every input the CKY parser and the
\* Earley parser give the same recognition answer and the same set of
\* parse trees.
C6_CKYAndEarleyAgree ==
    IsCNF(grammar) /\ Called("earley_parse") =>
        /\ \A c \in Calls : HasReturned(c)
        /\ Recognizes("cky_recognize") <=> Recognizes("earley_recognize")
        /\ Recognizes("pcfg_recognize") <=> Recognizes("earley_recognize")
        /\ result["pcfg_parse"].trees = result["earley_parse"].trees
        /\ result["cky_parse"].trees =
               {WithoutTokens(t) : t \in result["earley_parse"].trees}

\* C7: for every context-free grammar and every non-empty input the Earley
\* parser recognizes the input iff the start symbol derives it.
C7_EarleyRecognizesTheLanguage ==
    string # <<>> /\ Called("earley_recognize") =>
        (Recognizes("earley_recognize") <=> StartDerives)

\* C8: for a grammar in CNF and a non-empty input of length n, after the
\* CKY fill a symbol A has an entry in cell (i, j) iff A derives the tokens
\* between i and j, and the input is recognized iff the start symbol has an
\* entry in cell (0, n), iff the start symbol derives the input.
C8_CKYChartIsTheDerivedSpans ==
    IsCNF(grammar) /\ string # <<>> =>
        LET n == Len(string)
            derived == DerivedSpans(grammar, {}, string)
            start_in_chart ==
                \E entry \in chart[<<0, n>>] :
                    entry.symbol = grammar.start_variable
        IN  /\ pc = "filled" /\ IsCKY(current) =>
                   \A i \in 0..n, j \in 0..n, A \in grammar.variables :
                       i < j =>
                           ((\E entry \in chart[<<i, j>>] : entry.symbol = A)
                                <=> <<A, i, j>> \in derived)
            /\ pc = "idle" /\ todo = Tail(CallOrder(grammar)) =>
                   /\ Recognizes("cky_recognize") <=> start_in_chart
                   /\ Recognizes("cky_recognize") <=>
                          <<grammar.start_variable, 0, n>> \in derived
            /\ pc = "idle" /\ current = "pcfg_parse" =>
                   /\ Recognizes("pcfg_recognize") <=> start_in_chart
                   /\ Recognizes("pcfg_recognize") <=>
                          <<grammar.start_variable, 0, n>> \in derived

\* a grammar in CNF, an input of three tokens the start symbol derives
\* through the second split point, and a CKY fill that has just finished
C8_Witness ==
    /\ grammar = CnfAmbiguousGrammar
    /\ string = <<"a", "a", "b">>
    /\ pc = "filled"
    /\ current = "cky_recognize"
    /\ \E entry \in chart[<<0, 3>>] : entry.symbol = "S"
    /\ \E entry \in chart[<<0, 2>>] : entry.symbol = "A"
    /\ \A entry \in chart[<<0, 2>>] : entry.symbol # "S"

\* C9: for any grammar, left-recursive grammars and grammars with empty
\* productions such as kleene_star's included, the Earley closure at each
\* position reaches a fixed point and the fill finishes without failing.
C9_EarleyFillFinishes ==
    \A c \in {"earley_recognize", "earley_parse"} :
        result[c].status # "raised"

\* C10: parsing the empty token sequence returns a normal answer with
\* either parser: recognized iff the start symbol derives the empty string,
\* and no error is raised.
C10_EmptyInputIsAnswered ==
    string = <<>> =>
        \A m \in ParserModes :
            /\ Called(m[1]) =>
                   HasReturned(m[1]) /\ (Recognizes(m[1]) <=> StartDerives)
            /\ Called(m[2]) =>
                   HasReturned(m[2]) /\ (ReturnsTrees(m[2]) <=> StartDerives)


\* C11: for every non-empty input the grammar does not generate, tokens
\* outside the alphabet included, recognition returns false (minus infinity
\* for the PCFG parser), parse returns an empty collection and no error is
\* raised.
C11_NotGeneratedIsNoError ==
    string # <<>> /\ ~StartDerives =>
        \A m \in ParserModes :
            /\ Called(m[1]) => HasReturned(m[1]) /\ ~Recognizes(m[1])
            /\ Called(m[2]) => HasReturned(m[2]) /\ result[m[2]].count = 0


\* C12: under a grammar generating exactly a^n b^n (n >= 1) the input
\* a a a b b is rejected by the CKY parser (grammar in CNF) and by the
\* Earley parser.
C12_ThreeTwoIsRejected ==
    string = ThreeTwo =>
        /\ grammar = CnfAnBnGrammar =>
               \A m \in ParserModes :
                   /\ Called(m[1]) => HasReturned(m[1]) /\ ~Recognizes(m[1])
                   /\ Called(m[2]) => HasReturned(m[2]) /\ ~ReturnsTrees(m[2])
        /\ grammar \in {CnfAnBnGrammar, AnBnGrammar} =>
               /\ Called("earley_recognize") =>
                      HasReturned("earley_recognize")
                          /\ ~Recognizes("earley_recognize")
               /\ Called("earley_parse") =>
                      HasReturned("earley_parse") /\ ~ReturnsTrees("earley_parse")

\* every parser has answered a a a b b under the CNF grammar of a^n b^n,
\* and the Earley chart holds a completed S over a a b b, the last four
\* tokens
C12_Witness ==
    /\ grammar = CnfAnBnGrammar
    /\ string = ThreeTwo
    /\ todo = <<>>
    /\ \A c \in Calls : HasReturned(c)
    /\ \E entry \in echart[5] :
           /\ entry.dotted_rule.rule.left_side = "S"
           /\ entry.dotted_rule.span = <<1, 5>>
           /\ is_complete(entry.dotted_rule)


\* the probabilities of the (tree, log-probability) pairs, added up
RECURSIVE SumOfProbabilities(_)
SumOfProbabilities(pairs) ==
    IF pairs = {} THEN 0
    ELSE LET pair == CHOOSE x \in pairs : TRUE
         IN  pair[2] + SumOfProbabilities(pairs \ {pair})

\* C13: for a valid PCFG in CNF and a non-empty input, what the PCFG parser
\* returns in recognize mode is the sum, in probability space, of the
\* probabilities of all derivations parse mode returns for the same input,
\* and minus infinity when there is no derivation.
C13_RecognizeSumsTheParses ==
    IsCNF(grammar) /\ string # <<>> /\ Called("pcfg_parse") =>
        /\ HasReturned("pcfg_recognize")
        /\ HasReturned("pcfg_parse")
        /\ result["pcfg_parse"].count = Cardinality(result["pcfg_parse"].parses)
        /\ result["pcfg_recognize"].logprob =
               SumOfProbabilities(result["pcfg_parse"].parses)
        /\ result["pcfg_parse"].parses = {} =>
               result["pcfg_recognize"].logprob = NegInf

\* an input with two derivations of different probability, both modes done
C13_Witness ==
    /\ grammar = CnfAmbiguousGrammar
    /\ string = <<"a", "a", "b">>
    /\ HasReturned("pcfg_parse")
    /\ result["pcfg_parse"].count = 2
    /\ \E p, q \in result["pcfg_parse"].parses : p[2] < q[2]
    /\ result["pcfg_recognize"].logprob > NegInf


\* a step of a fill keeps every entry of every cell of the CKY chart
CKYStepOnlyAdds ==
    pc = "fill" /\ pc' = "fill" /\ IsCKY(current) =>
        \A index \in DOMAIN chart : chart[index] \subseteq chart'[index]

\* a step of a fill keeps every entry of every position of the Earley chart
EarleyStepOnlyAdds ==
    pc = "fill" /\ IsEarley(current) /\ DOMAIN echart' = DOMAIN echart =>
        \A pos \in DOMAIN echart : echart[pos] \subseteq echart'[pos]

\* C14: during any chart fill (CKY with or without backtraces, Earley) each
\* step only adds entries: an entry that is in a cell or position after a
\* step is still there, unchanged, after every later step of the same fill.
C14_FillOnlyAdds == [][CKYStepOnlyAdds /\ EarleyStepOnlyAdds]_vars


(***************************************************************************)
(* An Earley call that runs alone: the chart _fill_chart ends with when    *)
(* every scan reads the call's own string                                  *)
(***************************************************************************)
RECURSIVE CloseAt(_, _, _, _)
CloseAt(G, ch, w, pos) ==
    LET n == Len(w)
        here == UNION {IF Operation(G, entry, pos, n) = "predict"
                       THEN Predicted(G, entry, pos)
                       ELSE IF Operation(G, entry, pos, n) = "complete"
                       THEN Completed(ch, entry)
                       ELSE {} : entry \in ch[pos]}
        after == UNION {IF Operation(G, entry, pos, n) = "scan"
                        THEN Scanned(w[pos + 1], entry, pos)
                        ELSE {} : entry \in ch[pos]}
        closed == [p \in DOMAIN ch |->
                      IF p = pos THEN ch[p] \cup here
                      ELSE IF p = pos + 1 THEN ch[p] \cup after
                      ELSE ch[p]]
    IN  IF closed = ch THEN ch ELSE CloseAt(G, closed, w, pos)

RECURSIVE FillFrom(_, _, _, _)
FillFrom(G, ch, w, pos) ==
    IF pos = Len(w) THEN CloseAt(G, ch, w, pos)
    ELSE FillFrom(G, CloseAt(G, ch, w, pos), w, pos + 1)

ChartAlone(G, w) == FillFrom(G, EarleyChartInit(G, Len(w)), w, 0)

\* alone, the call completes an entry over chart[position] itself
RaisesAlone(G, w) ==
    LET alone == ChartAlone(G, w)
    IN  \E pos \in DOMAIN alone : \E entry \in alone[pos] :
            /\ is_complete(entry.dotted_rule)
            /\ entry.dotted_rule.span[1] = pos
            /\ Completed(alone, entry) # {}

\* the outcome res with chart ch is one the call on w has when it runs alone
AsAlone(G, w, mode, ch, res) ==
    IF res.status = "raised"
    THEN res.error = "RuntimeError" /\ RaisesAlone(G, w)
    ELSE LET alone == ChartAlone(G, w)
         IN  /\ ch = alone
             /\ mode = "recognize" =>
                    res.recognized =
                        EarleyRecognize(alone, G.start_variable, Len(w))
             /\ mode = "parse" =>
                    \E first \in EarleyFirstMatches(alone) :
                        res.trees = EarleyParses(alone, G.start_variable, first)

\* C15: two Earley calls on different inputs whose steps interleave, on one
\* parser object or on two, each end with the chart and the result the call
\* has when it runs alone
C15_InterleavedCallsEndAsAlone ==
    \A t \in DOMAIN threads :
        threads[t].result.status # "none" =>
            AsAlone(grammar, threads[t].string, threads[t].mode,
                    threads[t].chart, threads[t].result)


(***************************************************************************)
(* The constructors                                                        *)
(***************************************************************************)
VariableErrors ==
    {"ValueError: alphabet and variables must not share elements",
     "ValueError: start variable must be in set of variables"}

Constructed == outcome.op = "construct"

\* C16: constructing a grammar of either class fails with an error whenever
\* the alphabet and the variables share a symbol or the start variable is
\* not one of the variables, and passes these two checks otherwise
C16_ConstructionChecksTheVariables ==
    Constructed =>
        LET args == outcome.arguments
        IN  IF \/ args.alphabet \cap args.variables # {}
               \/ args.start_variable \notin args.variables
            THEN outcome.status = "raised" /\ outcome.object = 0
            ELSE /\ outcome.error \notin VariableErrors
                 /\ args.class = "ContextFreeGrammar" =>
                        outcome.status = "returned"
                 /\ outcome.status = "returned" =>
                        /\ outcome.object = Len(objects)
                        /\ objects[outcome.object].alphabet = args.alphabet
                        /\ objects[outcome.object].variables = args.variables
                        /\ objects[outcome.object].start_variable
                               = args.start_variable

\* a probabilistic grammar refused for its start variable alone
C16_Witness ==
    /\ Constructed
    /\ outcome.arguments.class = "ProbabilisticContextFreeGrammar"
    /\ outcome.arguments.alphabet \cap outcome.arguments.variables = {}
    /\ outcome.arguments.start_variable \notin outcome.arguments.variables
    /\ outcome.status = "raised"

\* the probabilities of the rules headed by nt sum to 1 within the tolerance
SumsToOne(rules, nt) ==
    /\ \A r \in Headed(rules, nt) : r.logprob # NoLogprob
    /\ IsCloseToOne(SumProb(Headed(rules, nt)))

\* C17: constructing a probabilistic grammar fails with the error of the
\* probability distribution if and only if the probabilities of the rules
\* headed by some variable do not sum to 1 within the tolerance, a rule
\* without a probability included
C17_DistributionErrorIffNotSummingToOne ==
    (/\ Constructed
     /\ outcome.arguments.class = "ProbabilisticContextFreeGrammar"
     /\ ValidateVariables(outcome.arguments.alphabet,
                          outcome.arguments.variables,
                          outcome.arguments.start_variable) = "ok") =>
        (outcome.error = "ValueError: Rules sum to sum_prob, not 1.0"
         <=> \E nt \in {r.left_side : r \in outcome.arguments.rules} :
                 ~SumsToOne(outcome.arguments.rules, nt))

(***************************************************************************)
(* The indices of the CKY chart                                            *)
(***************************************************************************)
\* the step reads or writes the chart at the index (i, j): it succeeds when
\* 0 <= i < j <= n, and otherwise raises ValueError and leaves the chart
IndexChecked ==
    outcome'.op \in {"getitem", "setitem"} =>
        LET i == outcome'.operands[1]
            j == outcome'.operands[2]
            n == InputSize(cky_chart)
        IN  IF 0 <= i /\ i < j /\ j <= n
            THEN outcome'.status = "returned"
            ELSE /\ outcome'.status = "raised"
                 /\ outcome'.error = "ValueError"
                 /\ cky_chart' = cky_chart

\* C18: reading or writing a CKY chart of input size n at (i, j) fails with
\* ValueError whenever i >= j or an index lies outside 0..n, negative indices
\* included, the chart left unchanged; it succeeds only when 0 <= i < j <= n
C18_ChartIndexIsChecked == [][IndexChecked]_vars

(***************************************************************************)
(* The operations on grammars                                              *)
(***************************************************************************)
Operations == {"union", "concatenate", "kleene_star"}

\* the operand o is after the step as it was before it
OperandUnchanged(o) ==
    /\ objects'[o] = objects[o]
    /\ sets'[objects'[o].rules] = sets[objects[o].rules]
    /\ \A left_side \in QueriedLeftSides :
           RulesResult(o, left_side)' = RulesResult(o, left_side)
    /\ \A right_side \in QueriedRightSides :
           ReduceResult(o, right_side)' = ReduceResult(o, right_side)

OperandsUnchanged ==
    outcome'.op \in Operations =>
        /\ \A o \in DOMAIN objects :
               (\E k \in DOMAIN outcome'.operands : outcome'.operands[k] = o)
                   => OperandUnchanged(o)
        /\ outcome'.status = "returned" =>
               outcome'.object \notin DOMAIN objects

\* C19: union, concatenate and kleene_star each return a new grammar and
\* leave every operand unchanged: its rule set, variables, alphabet and start
\* variable, and what rules(lhs) and reduce(rhs) return on it
C19_OperationsLeaveTheOperands == [][OperandsUnchanged]_vars

\* the grammar an object is
GrammarOf(o) ==
    ContextFreeGrammar(objects[o].alphabet, objects[o].variables,
                       sets[objects[o].rules], objects[o].start_variable)

Generates(G, w) == Derives(G, G.start_variable, w, 0, Len(w))

\* C20: when G1.union(G2) succeeds, also on grammars that share variable
\* names, the grammar returned generates a token sequence if and only if G1
\* or G2 generates it
C20_UnionGeneratesTheUnion ==
    (outcome.op = "union" /\ outcome.status = "returned") =>
        LET G == GrammarOf(outcome.object)
            G1 == GrammarOf(outcome.operands[1])
            G2 == GrammarOf(outcome.operands[2])
        IN  \A w \in Strings(G.alphabet, MaxLen) :
                Generates(G, w) <=> (Generates(G1, w) \/ Generates(G2, w))


(***************************************************************************)
(* The documented run of CKY on "unhappiness"                              *)
(***************************************************************************)
Symbols(cell) == {entry.symbol : entry \in cell}

\* a CKY call on the documented grammar and input has filled its chart
UnhappinessFilled ==
    /\ grammar = UnhappyGrammar
    /\ string = <<"un", "happy", "ness">>
    /\ todo # <<>>
    /\ IsCKY(current)
    /\ pc = "filled"

\* C21: the CKY algorithm as given, run on the documented grammar with the
\* input ["un","happy","ness"], ends with both N and Word in chart cell
\* (0, 3)
C21_UnhappinessCellHoldsNAndWord ==
    UnhappinessFilled => {"N", "Word"} \subseteq Symbols(chart[<<0, 3>>])


(***************************************************************************)
(* The lookups of a grammar                                                *)
(***************************************************************************)
\* the left sides of the rules whose right side is right_side
Reducing(rules, right_side) ==
    {r.left_side : r \in {r \in rules : r.right_side = right_side}}

\* after the step, rules(A) and reduce(x1..xk) on every grammar return what
\* its rule set holds, and a step that is such a call changes no grammar
LookupsExactAndPure ==
    /\ \A o \in DOMAIN objects' :
           IsGrammar(o)' =>
               /\ \A left_side \in QueriedLeftSides :
                      RulesResult(o, left_side)'
                          = Headed(sets'[objects'[o].rules], left_side)
               /\ \A right_side \in QueriedRightSides :
                      ReduceResult(o, right_side)'
                          = Reducing(sets'[objects'[o].rules], right_side)
    /\ outcome'.op \in {"rules", "reduce"} =>
           objects' = objects /\ sets' = sets

\* C22: rules(A) returns exactly the rules whose left side is A, reduce(x1..xk)
\* exactly the left sides of the rules whose right side is x1..xk, and neither
\* call changes the grammar
C22_LookupsAreExactAndPure == [][LookupsExactAndPure]_vars


(***************************************************************************)
(* The three operations of the Earley fill                                 *)
(***************************************************************************)
\* the entry Complete is to build from the waiting entry and the completed
\* entry stored at chart[pos]
AdvancedOver(waiting, entry, pos) ==
    EarleyChartEntry(
        DottedRule(waiting.dotted_rule.rule,
                   <<waiting.dotted_rule.span[1], entry.dotted_rule.span[2]>>,
                   waiting.dotted_rule.dot + 1),
        Append(waiting.backpointers,
               <<entry.dotted_rule.rule.left_side, pos>>))

\* a Complete step adds only entries built that way
CompleteAdvances ==
    CompleteStep =>
        \A new \in echart'[position] \ echart[position] :
            \E entry \in echart[position] :
                /\ is_complete(entry.dotted_rule)
                /\ \E waiting \in echart[entry.dotted_rule.span[1]] :
                       /\ ~is_complete(waiting.dotted_rule)
                       /\ is_completion_of(entry, waiting)
                       /\ new = AdvancedOver(waiting, entry, position)

\* C23: when Complete advances a waiting entry over a completed entry for B
\* with span (start, end), the new entry has the dot advanced by one, the
\* span (start of the waiting entry, end) and the backpointers of the waiting
\* entry followed by (B, end), end being the position where the completed
\* entry is stored
C23_CompleteRecordsTheEnd == [][CompleteAdvances]_vars


\* the entries a prediction of non-terminal B at position p is to add
FreshEntries(B, p) ==
    {[dotted_rule |-> [rule |-> [left_side |-> rule.left_side,
                                 right_side |-> rule.right_side],
                       span |-> <<p, p>>,
                       dot |-> 0],
      backpointers |-> <<>>] :
        rule \in {r \in grammar.rules : r.left_side = B}}

PredictAddsTheRulesOfB ==
    PredictStep =>
        \E entry \in echart[position] :
            /\ entry.dotted_rule.dot < Len(entry.dotted_rule.rule.right_side)
            /\ LET B == entry.dotted_rule.rule.right_side[entry.dotted_rule.dot + 1]
               IN  /\ B \in grammar.variables
                   /\ echart'[position] = echart[position] \cup FreshEntries(B, position)
                   /\ \A q \in DOMAIN echart : q # position => echart'[q] = echart[q]
                   /\ DOMAIN echart' = DOMAIN echart

\* C24: Predict at position p on an entry whose next symbol is the
\* non-terminal B adds to chart[p] one entry per rule B -> gamma, each with
\* span (p, p), dot 0 and no backpointers, adds nothing else and changes no
\* other chart position
C24_PredictAddsTheRulesOfB == [][PredictAddsTheRulesOfB]_vars

\* a prediction has put an entry for a non-terminal other than the start
\* variable into a chart position after the first
C24_Witness ==
    /\ pc = "fill"
    /\ IsEarley(current)
    /\ position > 0
    /\ \E new \in echart[position] :
           /\ new.dotted_rule.dot = 0
           /\ new.dotted_rule.span = <<position, position>>
           /\ new.backpointers = <<>>
           /\ \E entry \in echart[position] :
                  /\ entry.dotted_rule.span[1] < position
                  /\ Operation(grammar, entry, position, Len(self_string)) = "predict"
                  /\ new \in FreshEntries(next_symbol(entry.dotted_rule), position)


\* the dotted rule of an entry moved over the token at position p
MovedOver(entry, p) ==
    [rule |-> entry.dotted_rule.rule,
     span |-> <<entry.dotted_rule.span[1], p + 1>>,
     dot |-> entry.dotted_rule.dot + 1]

ScanMovesTheEntry ==
    ScanStep =>
        \E entry \in echart[position] :
            /\ entry.dotted_rule.dot < Len(entry.dotted_rule.rule.right_side)
            /\ entry.dotted_rule.rule.right_side[entry.dotted_rule.dot + 1]
                   = self_string[position + 1]
            /\ \A q \in DOMAIN echart : q # position + 1 => echart'[q] = echart[q]
            /\ \E new \in echart'[position + 1] :
                   new.dotted_rule = MovedOver(entry, position)
            /\ \A new \in echart'[position + 1] \ echart[position + 1] :
                   new.dotted_rule = MovedOver(entry, position)

\* C25: Scan at position p < n on an entry whose next symbol is the
\* terminal a changes nothing when the token at p is not a; when it is a,
\* the only change is that chart[p + 1] gains the entry with the dot advanced
\* by one and the span ending at p + 1, and chart[0..p] stay as they are
C25_ScanMovesTheEntry == [][ScanMovesTheEntry]_vars


\* what the operation of the loop adds for an entry of chart[pos], and to
\* which position
Additions(ch, entry, pos) ==
    LET op == Operation(grammar, entry, pos, Len(self_string))
    IN  IF op = "predict" THEN Predicted(grammar, entry, pos)
        ELSE IF op = "scan" THEN Scanned(self_string[pos + 1], entry, pos)
        ELSE IF op = "complete" THEN Completed(ch, entry)
        ELSE {}

Target(entry, pos) ==
    IF Operation(grammar, entry, pos, Len(self_string)) = "scan"
    THEN pos + 1
    ELSE pos

\* the step applied its operation to the entry
AppliedTo(entry) ==
    /\ PredictStep \/ ScanStep \/ CompleteStep \/ CompleteInPlace
    /\ echart'[Target(entry, position)] # echart[Target(entry, position)]
    /\ echart'[Target(entry, position)] \ echart[Target(entry, position)]
           \subseteq Additions(echart, entry, position)

SecondApplicationAddsNothing ==
    (pc = "fill" /\ IsEarley(current)) =>
        \A entry \in echart[position] :
            AppliedTo(entry) =>
                Additions(echart', entry, position)
                    \subseteq echart'[Target(entry, position)]

\* C26: an entry equal to one of a chart position (same rule, span, dot and
\* backpointers) is not added again, so predict, scan or complete applied a
\* second time to the same entry of the same chart adds nothing
C26_SecondApplicationAddsNothing == [][SecondApplicationAddsNothing]_vars


\* the chart table of the documentation for un happy ness
DocumentedChart ==
    <<{DottedRule(Rule("Word", <<"N">>), <<0, 0>>, 0),
       DottedRule(Rule("N", <<"Adj", "Suffix">>), <<0, 0>>, 0),
       DottedRule(Rule("Adj", <<"happy">>), <<0, 0>>, 0),
       DottedRule(Rule("Adj", <<"Prefix", "Adj">>), <<0, 0>>, 0),
       DottedRule(Rule("Prefix", <<"un">>), <<0, 0>>, 0)},
      {DottedRule(Rule("Prefix", <<"un">>), <<0, 1>>, 1),
       DottedRule(Rule("Adj", <<"Prefix", "Adj">>), <<0, 1>>, 1),
       DottedRule(Rule("Adj", <<"happy">>), <<1, 1>>, 0),
       DottedRule(Rule("Adj", <<"Prefix", "Adj">>), <<1, 1>>, 0),
       DottedRule(Rule("Prefix", <<"un">>), <<1, 1>>, 0)},
      {DottedRule(Rule("Adj", <<"happy">>), <<1, 2>>, 1),
       DottedRule(Rule("Adj", <<"Prefix", "Adj">>), <<0, 2>>, 2),
       DottedRule(Rule("N", <<"Adj", "Suffix">>), <<0, 2>>, 1),
       DottedRule(Rule("Suffix", <<"ness">>), <<2, 2>>, 0)},
      {DottedRule(Rule("Suffix", <<"ness">>), <<2, 3>>, 1),
       DottedRule(Rule("N", <<"Adj", "Suffix">>), <<0, 3>>, 2),
       DottedRule(Rule("Word", <<"N">>), <<0, 3>>, 1)}>>

DottedRules(entries) == {entry.dotted_rule : entry \in entries}

UnhappinessEarleyFilled ==
    /\ grammar = UnhappyGrammar
    /\ string = <<"un", "happy", "ness">>
    /\ todo # <<>>
    /\ IsEarley(current)
    /\ pc = "filled"

\* C27: after the Earley fill for un happy ness under the documented
\* grammar, chart positions 0, 1, 2 and 3 hold the dotted rules of the
\* documented chart table (5, 5, 4 and 3 of them) and no others
C27_ChartIsTheDocumentedTable ==
    UnhappinessEarleyFilled =>
        \A p \in 0..3 : DottedRules(echart[p]) = DocumentedChart[p + 1]


Filling == IsEarley(current) /\ pc \in {"fill", "filled"}

WellFormedAt(entry, p, n) ==
    /\ 0 <= entry.dotted_rule.span[1]
    /\ entry.dotted_rule.span[1] <= entry.dotted_rule.span[2]
    /\ entry.dotted_rule.span[2] = p
    /\ p <= n
    /\ entry.dotted_rule.dot \in 0..Len(entry.dotted_rule.rule.right_side)
    /\ Len(entry.backpointers) = entry.dotted_rule.dot

\* C28: at every point of an Earley fill over an input of length n, an entry
\* of chart position p has a span (s, e) with 0 <= s <= e = p <= n, a dot
\* between 0 and the length of the right side of its rule, and as many
\* backpointers as there are symbols before the dot
C28_EntriesAreWellFormed ==
    Filling =>
        \A p \in DOMAIN echart :
            \A entry \in echart[p] : WellFormedAt(entry, p, Len(self_string))


\* the log-probability of the rule of a node
RuleLogprob(G, left_side, right_side) ==
    (CHOOSE r \in G.rules :
        r.left_side = left_side /\ r.right_side = right_side).logprob

\* the sum of the log-probabilities of the rules at the internal nodes of a
\* tree, a token counting 0
RECURSIVE TreeLogprob(_, _)
RECURSIVE ChildrenLogprob(_, _)
TreeLogprob(G, t) ==
    IF t.children = <<>> THEN LogZero
    ELSE LogAdd(RuleLogprob(G, t.data,
                            [c \in DOMAIN t.children |-> t.children[c].data]),
                ChildrenLogprob(G, t.children))

ChildrenLogprob(G, ts) ==
    IF ts = <<>> THEN LogZero
    ELSE LogAdd(TreeLogprob(G, Head(ts)), ChildrenLogprob(G, Tail(ts)))

\* C29: in parse mode of the PCFG parser the log-probability returned with a
\* tree is the sum of the log-probabilities of the rules at the internal
\* nodes of the tree, and every derivation of the input comes as a pair of
\* its own, also when two derivations share the root rule and the probability
C29_ParsesCarryTheirLogprob ==
    HasReturned("pcfg_parse") =>
        /\ \A pair \in result["pcfg_parse"].parses :
               /\ NodesAreRules(grammar, pair[1])
               /\ pair[2] = TreeLogprob(grammar, pair[1])
        /\ result["pcfg_parse"].count = Cardinality(result["pcfg_parse"].parses)
        /\ IsCNF(grammar) /\ string # <<>> =>
               {pair[1] : pair \in result["pcfg_parse"].parses} =
                   DerivationTrees(grammar, grammar.start_variable, string,
                                   0, Len(string))

\* two derivations of a a a with the same root rule and the same probability
C29_Witness ==
    /\ grammar = CnfRecursiveGrammar
    /\ string = <<"a", "a", "a">>
    /\ HasReturned("pcfg_parse")
    /\ result["pcfg_parse"].count = 2
    /\ \E p, q \in result["pcfg_parse"].parses :
           /\ p[1] # q[1]
           /\ p[1].data = q[1].data
           /\ p[1].children[1].data = q[1].children[1].data
           /\ p[1].children[2].data = q[1].children[2].data
           /\ p[2] = q[2]
           /\ p[2] = Half(5)


\* the value the call of a class on (source, target) returned
ValueOf(class, source, target) ==
    (CHOOSE d \in {distances[k] : k \in DOMAIN distances} :
        d.class = class /\ d.source = source /\ d.target = target).value

AllReturned == Len(distances) = Len(EditCalls) /\ wagner_fisher.at = "idle"

\* C30: for every pair of strings and all non-negative integer costs the
\* Wagner-Fischer distance of StringEdit3 is the distance of the naive
\* recursion of StringEdit1; with equal insertion and deletion costs the
\* distance of a string to itself is 0 and the distance is symmetric
C30_WagnerFisherIsTheNaiveDistance ==
    AllReturned =>
        LET s == edit_strings[1]
            t == edit_strings[2]
        IN  /\ ValueOf("StringEdit3", s, t) = ValueOf("StringEdit1", s, t)
            /\ ValueOf("StringEdit3", t, s) = ValueOf("StringEdit1", t, s)
            /\ editdist.insertion_cost = editdist.deletion_cost =>
                   /\ s = t => ValueOf("StringEdit3", s, t) = 0
                   /\ ValueOf("StringEdit3", s, t) = ValueOf("StringEdit3", t, s)
                   /\ ValueOf("StringEdit1", s, t) = ValueOf("StringEdit1", t, s)

\* both distances taken between a b and b, where one character matches and
\* one is deleted, the substitution being dearer than deleting and inserting
C30_Witness ==
    /\ AllReturned
    /\ edit_strings = <<<<"a", "b">>, <<"b">>>>
    /\ editdist.insertion_cost = 1
    /\ editdist.deletion_cost = 1
    /\ editdist.substitution_cost = 2
    /\ ValueOf("StringEdit3", <<"a", "b">>, <<"b">>) = 1
    /\ ValueOf("StringEdit3", <<"b">>, <<"a", "b">>) = 1

============================================================================
